---------------------------- MODULE Spec2Model ----------------------------
(***************************************************************************)
(* A model of the PQC-vs-SECOC DoS evaluation harness:                     *)
(*   src/secoc_receiver_tcp.py  the SECOC receiver (HMAC, FIFO replay      *)
(*                              cache, CPU-scaled overload drop, accept    *)
(*                              loop)                                      *)
(*   src/secoc_sender_tcp.py    the SECOC sender (builds the envelope)     *)
(*   src/receiver_pqc.py        the PQC receiver (handler threads, bounded *)
(*                              work queue, 4 workers, replay set)         *)
(*   src/dos_simulator.py       the load generator (run_scenario, LoadGen  *)
(*                              in churn, steady and long mode,            *)
(*                              summarize)                                 *)
(*   src/normalize_results.py   the normalizer (normalize_can)             *)
(*   src/analyze_runs.py        the Analyzer (main)                        *)
(*                                                                         *)
(* src/dos_simulator.py and src/receiver_pqc.py carry string literals      *)
(* indented with tabs between statements (lines 84 and 103 to 112); they   *)
(* are read as the comments they stand for.                                *)
(*                                                                         *)
(* Bytes are modelled by bits: the record is RecBits wide, the freshness   *)
(* timestamp TsBits wide, and a tag or digest is a sequence of bits, one   *)
(* per byte of the program's tag or digest.  Percentages are held in       *)
(* tenths of a percent (psutil reports one decimal), probabilities as      *)
(* numerators over ProbDen.                                                *)
(*                                                                         *)
(* The capacities REPLAY_CACHE_SIZE (1024), MAX_HASHES (2048) and          *)
(* QUEUE_MAXSIZE (500) are scaled down; every formula names the capacity   *)
(* instead of its value.                                                   *)
(***************************************************************************)
EXTENDS Integers, Sequences, FiniteSets, TLC

VARIABLES
    \* ---- SECOC receiver (src/secoc_receiver_tcp.py)
    REPLAY_CACHE,   \* collections.deque(maxlen=REPLAY_CACHE_SIZE), oldest first
    REPLAY_SET,     \* set() of the fingerprints held
    s_now,          \* int(time.time()) of the SECOC receiver's host
    s_last,         \* the last connection handled: envelope, inputs, outcome
    \* ---- record_replay driven directly
    r_recorded,     \* history: the fingerprints record_replay inserted, in order
    r_last,         \* the last call: argument, membership before, return value
    \* ---- one delivery of a drawn envelope
    a_in,           \* the envelope, the CPU reading and the draw
    \* ---- compute_drop_prob as a function
    c_in,           \* the two CPU readings drawn
    c_out,          \* the two results
    \* ---- the freshness checks as functions
    f_in,           \* now and ts drawn
    f_out,          \* the two verdicts
    \* ---- PQC receiver (src/receiver_pqc.py)
    MSG_QUEUE,      \* queue.Queue(maxsize): the items waiting, oldest first
    unfinished_tasks, \* the queue's count of items put and not yet task_done
    SEEN_HASHES,    \* set() of fingerprints
    m_pc,           \* main: "accept", "sentinels", "join", "exit"
    m_pushed,       \* sentinels main has put
    h_pc,           \* per connection: where its handler thread is, or how it ended
    w_pc,           \* per worker: where the worker thread is
    w_item,         \* per worker: the item it is working on (0: none, or the None sentinel)
    p_traffic,      \* per connection, in accept order: the envelope it delivers and
                    \* the CPU reading and draw its pre-admission check gets
    p_result,       \* per connection: how handle_message ended for its message
    p_everQueued,   \* history: the connections whose message was put on the queue
    \* ---- load generator (src/dos_simulator.py)
    l_args,         \* the parsed command line and what the target does
    l_pc,           \* run_scenario: "start", "gather", "sleep", "ran", "stopping", "returned"
    l_sem,          \* LoadGen._sem: the semaphore's free slots
    l_task,         \* per index: where the task running _one(idx) is
    l_iter,         \* run_steady: batches started
    results,        \* LoadGen.results, in append order
    l_sampler,      \* the SystemSampler: task created, _running, rows sampled
    l_files,        \* the files and directories run_scenario has written
    l_exit,         \* what run_scenario returned (-1 until it returns)
    l_stop,         \* LoadGen._stop
    l_long,         \* run_long: the next connection to open, the connections
                    \* opened (writers), iter_no, the writers closed
    \* ---- summarize as a function (src/dos_simulator.py)
    u_in,           \* the list of Request Results drawn
    u_out,          \* the summary returned
    \* ---- normalize_can (src/normalize_results.py)
    n_in,           \* the CSV rows and the two overrides drawn
    n_out,          \* the summary and the request log written
    \* ---- the Analyzer (src/analyze_runs.py)
    z_in,           \* the command line and what the two run directories hold
    z_pc,           \* main: "start", "loadedA", "loadedB", "csv", "bars", "done", "usage", "error"
    z_files,        \* the artifacts main has written
    \* ---- the SECOC receiver's accept loop (src/secoc_receiver_tcp.py, main)
    s_pc,           \* "off", "accept", "handling", "fatal"
    s_conn,         \* the envelope the accepted connection delivers
    \* ---- recv_exact and the reads of an envelope (both receivers)
    x_in,           \* the receiver, the bytes the peer sends, how the peer ends
    x_rd            \* the reader: position in the stream, the call pending, the
                    \* fields returned, how the reads ended

secocVars  == <<REPLAY_CACHE, REPLAY_SET, s_now, s_last>>
replayVars == <<r_recorded, r_last>>
authVars   == <<a_in>>
probVars   == <<c_in, c_out>>
freshVars  == <<f_in, f_out>>
pqcVars    == <<MSG_QUEUE, unfinished_tasks, SEEN_HASHES, m_pc, m_pushed, h_pc,
                w_pc, w_item, p_traffic, p_result, p_everQueued>>
loadVars   == <<l_args, l_pc, l_sem, l_task, l_iter, results, l_sampler, l_files,
                l_exit, l_stop, l_long>>
sumVars    == <<u_in, u_out>>
normVars   == <<n_in, n_out>>
anaVars    == <<z_in, z_pc, z_files>>
loopVars   == <<s_pc, s_conn>>
recvVars   == <<x_in, x_rd>>
toolVars   == <<loadVars, sumVars, normVars, anaVars, loopVars, recvVars>>
vars == <<REPLAY_CACHE, REPLAY_SET, s_now, s_last, r_recorded, r_last, a_in,
          c_in, c_out, f_in, f_out,
          MSG_QUEUE, unfinished_tasks, SEEN_HASHES, m_pc, m_pushed, h_pc,
          w_pc, w_item, p_traffic, p_result, p_everQueued, toolVars>>

-----------------------------------------------------------------------------
(* Bounds of the model *)

\* scaled: REPLAY_CACHE_SIZE = 1024 at src/secoc_receiver_tcp.py:31
REPLAY_CACHE_SIZE == 2
\* fingerprints offered to record_replay beyond the capacity
ExtraHashes == 2
\* calls of record_replay that insert, in one behaviour
MaxRecorded == 4
\* clock ticks of the SECOC host in one behaviour
MaxTicks == 1
\* scaled: MAX_HASHES = 2048 at src/receiver_pqc.py:28
MAX_HASHES == 1
\* scaled: queue.Queue(maxsize=500) at src/receiver_pqc.py:24
QUEUE_MAXSIZE == 1
\* connections the PQC receiver accepts in one behaviour
MaxConns == 2

(* Program constants *)

FRESHNESS_MAX_AGE == 5
FRESHNESS_FUTURE_TOL == 5
PQC_FRESH_WINDOW == 30
CPU_SCALE == 120
\* MAX_DROP_PROB = 0.85, in hundredths
MAX_DROP_PROB == 85
TAG_LEN == 8
\* hashlib.sha256(...).digest() is 32 bytes
DIGEST_LEN == 32
\* len(message) < 56
MIN_MSG_LEN == 56
\* struct.calcsize(PAYLOAD_FMT)
PAYLOAD_LEN == 48
\* for _ in range(4): threading.Thread(target=worker, ...)
NUM_WORKERS == 4
\* CPU_LIMIT = 85.0, in tenths of a percent
CPU_LIMIT == 850
\* DROP_PROB_BASE = 0.1, in hundredths
DROP_PROB_BASE == 10

(* Widths of the modelled fields *)
RecBits == 1
TsBits == 4
\* the SECOC host's clock at the start
SecocNow0 == 7

-----------------------------------------------------------------------------
(* Helpers *)

Min(a, b) == IF a <= b THEN a ELSE b

\* Python's None, and a value that is present
None == <<>>
Some(v) == <<v>>

Range(s) == {s[i] : i \in DOMAIN s}

Pow2(k) == 2 ^ k

Bit(n, k) == (n \div Pow2(k)) % 2

FlipBit(n, k) == IF Bit(n, k) = 1 THEN n - Pow2(k) ELSE n + Pow2(k)

\* bytes[:n]
Prefix(s, n) == SubSeq(s, 1, Min(n, Len(s)))

\* the last n elements of s
Suffix(s, n) == SubSeq(s, Len(s) - Min(n, Len(s)) + 1, Len(s))


-----------------------------------------------------------------------------
(* SECOC: messages, HMAC and fingerprints *)

\* SECRET_KEY = b"my_shared_secret" is key 0; any other key is key 1
SECRET_KEY == 0
OtherKey == SECRET_KEY + 1

\* message = payload + freshness: its length in bytes and the contents of
\* the record and of the freshness field
Message(len, rec, ts) == [len |-> len, rec |-> rec, ts |-> ts]

\* the bytes of a message as one number, distinct for distinct messages of
\* 55..57 bytes
MsgCode(msg) ==
    ((msg.len - (MIN_MSG_LEN - 1)) * Pow2(RecBits) + msg.rec) * Pow2(TsBits) + msg.ts

\* the messages and keys of the model
Messages ==
    [len : (MIN_MSG_LEN - 1)..(MIN_MSG_LEN + 1),
     rec : 0..(Pow2(RecBits) - 1),
     ts  : 0..(Pow2(TsBits) - 1)]
Keys == {SECRET_KEY, OtherKey}

\* hmac.new(key, message, hashlib.sha256).digest(): DIGEST_LEN bytes that
\* depend on every bit of the key and of the message; no two of the model's
\* (key, message) pairs share their first TAG_LEN bytes
HmacDigest(key, msg) ==
    LET code  == key * (3 * Pow2(RecBits + TsBits)) + MsgCode(msg)
        mixed == (code * 167 + 89) % Pow2(TAG_LEN)
    IN  [i \in 1..DIGEST_LEN |-> Bit(mixed + (i - 1) \div TAG_LEN, (i - 1) % TAG_LEN)]

\* the digests, computed once
HmacTable == [key \in Keys |-> [msg \in Messages |-> HmacDigest(key, msg)]]

Hmac(key, msg) == HmacTable[key][msg]

\* an envelope as read off the wire: tag_len is Len(tag)
Envelope(msg, tag) == [aborted |-> FALSE, msg |-> msg, tag |-> tag]

\* a connection that closes or times out before the envelope is complete
AbortedEnvelope ==
    [aborted |-> TRUE, msg |-> Message(MIN_MSG_LEN - 1, 0, 0), tag |-> <<>>]

\* secoc_sender_tcp.main: payload + freshness, tagged with full_tag[:TAG_LEN]
SenderEnvelope(key, rec, ts) ==
    LET message == Message(PAYLOAD_LEN + 8, rec, ts)
        full_tag == Hmac(key, message)
    IN  Envelope(message, Prefix(full_tag, TAG_LEN))

RECURSIVE BitsNum(_)
BitsNum(bits) ==
    IF bits = <<>> THEN 0 ELSE Head(bits) + 2 * BitsNum(Tail(bits))

\* hashlib.sha256(structured_payload + freshness + tag).hexdigest()[:32],
\* taken to be collision free
Fingerprint(env) ==
    (MsgCode(env.msg) * (DIGEST_LEN + 2) + Len(env.tag)) * Pow2(TAG_LEN + 1)
        + BitsNum(Prefix(env.tag, TAG_LEN + 1))

-----------------------------------------------------------------------------
(* SECOC: record_replay *)

\* deque.append on a deque with maxlen: a full deque drops its left end
DequeAppend(d, x) ==
    LET a == Append(d, x)
    IN  IF Len(a) > REPLAY_CACHE_SIZE THEN Tail(a) ELSE a

\* faulty variant: evicts the newest entry instead of the oldest
record_replay_lifo(cache, set, msg_hash) ==
    IF msg_hash \in set
    THEN [cache |-> cache, set |-> set, ret |-> FALSE]
    ELSE LET evict == Cardinality(set) >= REPLAY_CACHE_SIZE
             old   == cache[Len(cache)]
             c1    == IF evict THEN SubSeq(cache, 1, Len(cache) - 1) ELSE cache
             s1    == IF evict THEN set \ {old} ELSE set
         IN  [cache |-> DequeAppend(c1, msg_hash),
              set   |-> s1 \cup {msg_hash},
              ret   |-> TRUE]

\* faulty variant: the evicted fingerprint is not discarded from the set
record_replay_keeps_set(cache, set, msg_hash) ==
    IF msg_hash \in set
    THEN [cache |-> cache, set |-> set, ret |-> FALSE]
    ELSE LET evict == Cardinality(set) >= REPLAY_CACHE_SIZE
             c1    == IF evict /\ cache # <<>> THEN Tail(cache) ELSE cache
         IN  [cache |-> DequeAppend(c1, msg_hash),
              set   |-> set \cup {msg_hash},
              ret   |-> TRUE]

\* record_replay(msg_hash) on the globals REPLAY_CACHE and REPLAY_SET:
\* the new cache, the new set and the value returned
record_replay(cache, set, msg_hash) ==
    IF msg_hash \in set
    THEN [cache |-> cache, set |-> set, ret |-> FALSE]
    ELSE LET evict == Cardinality(set) >= REPLAY_CACHE_SIZE
             old   == Head(cache)
             c1    == IF evict THEN Tail(cache) ELSE cache
             s1    == IF evict THEN set \ {old} ELSE set
         IN  [cache |-> DequeAppend(c1, msg_hash),
              set   |-> s1 \cup {msg_hash},
              ret   |-> TRUE]

-----------------------------------------------------------------------------
(* SECOC: compute_drop_prob *)

\* probabilities are numerators over ProbDen
ProbDen == 100 * CPU_SCALE

\* faulty variant: the cap is applied with max instead of min
compute_drop_prob_max(raises, cpu10) ==
    LET cpu == IF raises THEN 0 ELSE cpu10
        a   == MAX_DROP_PROB * CPU_SCALE
        b   == 10 * cpu
    IN  [prob |-> IF a >= b THEN a ELSE b, cpu |-> cpu]

\* compute_drop_prob(): psutil's reading in tenths of a percent (0 when the
\* call raises), prob = min(MAX_DROP_PROB, cpu / CPU_SCALE)
compute_drop_prob(raises, cpu10) ==
    LET cpu == IF raises THEN 0 ELSE cpu10
    IN  [prob |-> Min(MAX_DROP_PROB * CPU_SCALE, 10 * cpu), cpu |-> cpu]

-----------------------------------------------------------------------------
(* The freshness checks of the two receivers *)

Abs(x) == IF x < 0 THEN -x ELSE x

\* faulty variant: the stale bound is inclusive
SecocFreshness_ge(now, ts) ==
    LET age == now - ts
    IN  IF age >= FRESHNESS_MAX_AGE THEN "stale"
        ELSE IF ts - now > FRESHNESS_FUTURE_TOL THEN "future"
        ELSE "ok"

\* secoc_receiver_tcp.handle_connection, the freshness check
SecocFreshness(now, ts) ==
    LET age == now - ts
    IN  IF age > FRESHNESS_MAX_AGE THEN "stale"
        ELSE IF ts - now > FRESHNESS_FUTURE_TOL THEN "future"
        ELSE "ok"

\* receiver_pqc.handle_message: abs(now - ts) > 30 returns
PqcFreshness(now, ts) ==
    IF Abs(now - ts) > PQC_FRESH_WINDOW THEN "drop" ELSE "ok"

-----------------------------------------------------------------------------
(* SECOC: handle_connection *)

\* faulty variant: the tag is recomputed over the record alone, so the
\* freshness field is not authenticated
HmacOk_record_only(env) ==
    LET calc_full == HmacDigest(SECRET_KEY, Message(env.msg.len, env.msg.rec, 0))
        calc_tag  == Prefix(calc_full, Len(env.tag))
    IN  calc_tag = env.tag

\* calc_tag = calc_full[:tag_len]; calc_tag != tag rejects
HmacOk(env) ==
    LET calc_full == Hmac(SECRET_KEY, env.msg)
        calc_tag  == Prefix(calc_full, Len(env.tag))
    IN  calc_tag = env.tag

\* struct.unpack(PAYLOAD_FMT, structured_payload) needs exactly 48 bytes
UnpackOk(msg) == msg.len - 8 = PAYLOAD_LEN

\* faulty variant: the overload gate runs before the fingerprint is looked up
\* and recorded
SecocOutcome_gate_first(env, now, set, drop_prob, draw) ==
    IF env.aborted THEN "aborted"
    ELSE IF env.msg.len < MIN_MSG_LEN THEN "too_short"
    ELSE IF SecocFreshness(now, env.msg.ts) # "ok" THEN SecocFreshness(now, env.msg.ts)
    ELSE IF ~HmacOk(env) THEN "hmac_mismatch"
    ELSE IF draw < drop_prob THEN "overload_unrecorded"
    ELSE IF Fingerprint(env) \in set THEN "replay"
    ELSE IF ~UnpackOk(env.msg) THEN "unpack_error"
    ELSE "done"

\* faulty variant: the overload gate runs before the HMAC is verified
SecocOutcome_overload_before_hmac(env, now, set, drop_prob, draw) ==
    IF env.aborted THEN "aborted"
    ELSE IF env.msg.len < MIN_MSG_LEN THEN "too_short"
    ELSE IF SecocFreshness(now, env.msg.ts) # "ok" THEN SecocFreshness(now, env.msg.ts)
    ELSE IF draw < drop_prob THEN "overload"
    ELSE IF ~HmacOk(env) THEN "hmac_mismatch"
    ELSE IF Fingerprint(env) \in set THEN "replay"
    ELSE IF ~UnpackOk(env.msg) THEN "unpack_error"
    ELSE "done"

\* the return taken by handle_connection(conn, addr), in the order of the code
SecocOutcome(env, now, set, drop_prob, draw) ==
    IF env.aborted THEN "aborted"
    ELSE IF env.msg.len < MIN_MSG_LEN THEN "too_short"
    ELSE IF SecocFreshness(now, env.msg.ts) # "ok" THEN SecocFreshness(now, env.msg.ts)
    ELSE IF ~HmacOk(env) THEN "hmac_mismatch"
    ELSE IF Fingerprint(env) \in set THEN "replay"
    ELSE IF draw < drop_prob THEN "overload"
    ELSE IF ~UnpackOk(env.msg) THEN "unpack_error"
    ELSE "done"

\* faulty variant: the fingerprint is recorded before the HMAC is verified
AfterRecord_before_hmac == {"hmac_mismatch", "overload", "unpack_error", "done"}

\* the returns that come after record_replay(msg_hash)
AfterRecord == {"overload", "unpack_error", "done"}

\* faulty variant: the fingerprint is recorded only once the message has
\* been decoded
handle_connection_record_last(env, raises, cpu10, draw) ==
    LET dp  == compute_drop_prob(raises, cpu10)
        out == SecocOutcome(env, s_now, REPLAY_SET, dp.prob, draw)
        rr  == record_replay(REPLAY_CACHE, REPLAY_SET, Fingerprint(env))
    IN  /\ s_last' = [env |-> env, now |-> s_now, cpu |-> dp.cpu, draw |-> draw,
                      cached |-> (~env.aborted /\ Fingerprint(env) \in REPLAY_SET),
                      outcome |-> out]
        /\ IF out = "done"
           THEN /\ REPLAY_CACHE' = rr.cache
                /\ REPLAY_SET' = rr.set
           ELSE UNCHANGED <<REPLAY_CACHE, REPLAY_SET>>
        /\ UNCHANGED s_now

\* handle_connection(conn, addr): one connection delivering env, with the
\* CPU reading and the random draw the overload gate gets
handle_connection(env, raises, cpu10, draw) ==
    LET dp  == compute_drop_prob(raises, cpu10)
        out == SecocOutcome(env, s_now, REPLAY_SET, dp.prob, draw)
        rr  == record_replay(REPLAY_CACHE, REPLAY_SET, Fingerprint(env))
    IN  /\ s_last' = [env |-> env, now |-> s_now, cpu |-> dp.cpu, draw |-> draw,
                      cached |-> (~env.aborted /\ Fingerprint(env) \in REPLAY_SET),
                      outcome |-> out]
        /\ IF out \in AfterRecord
           THEN /\ REPLAY_CACHE' = rr.cache
                /\ REPLAY_SET' = rr.set
           ELSE UNCHANGED <<REPLAY_CACHE, REPLAY_SET>>
        /\ UNCHANGED s_now

\* the base envelope of the traffic: what the sender emits at SecocNow0
BaseEnvelope == SenderEnvelope(SECRET_KEY, 0, SecocNow0)

FlipRec(env, k) ==
    [env EXCEPT !.msg.rec = FlipBit(@, k)]
FlipTs(env, k) ==
    [env EXCEPT !.msg.ts = FlipBit(@, k)]
FlipTag(env, j) ==
    [env EXCEPT !.tag[j] = 1 - @]

\* the envelopes clients deliver: sender-built ones (fresh, at the edge of
\* the window, stale, future), the base envelope with one bit of its
\* freshness or of its tag changed, a forgery under another key, an empty
\* tag, a short and a long message, a short read
SecocEnvelopes ==
    {SenderEnvelope(SECRET_KEY, r, SecocNow0) : r \in 0..(Pow2(RecBits) - 1)}
    \cup {SenderEnvelope(SECRET_KEY, 0, SecocNow0 + d) :
            d \in {-(FRESHNESS_MAX_AGE + 1), -FRESHNESS_MAX_AGE,
                   FRESHNESS_FUTURE_TOL + 1}}
    \cup {FlipTs(BaseEnvelope, 0), FlipTag(BaseEnvelope, 1)}
    \cup {SenderEnvelope(OtherKey, 0, SecocNow0)}
    \cup {Envelope(BaseEnvelope.msg, <<>>)}
    \cup {Envelope(Message(MIN_MSG_LEN - 1, 0, SecocNow0), BaseEnvelope.tag)}
    \cup {LET m == Message(MIN_MSG_LEN + 1, 0, SecocNow0)
          IN  Envelope(m, Prefix(Hmac(SECRET_KEY, m), TAG_LEN))}
    \cup {AbortedEnvelope}

\* every envelope the sender can build, and each of them with one bit of its
\* record, of its freshness or of its tag changed
SenderEnvelopes ==
    {SenderEnvelope(SECRET_KEY, r, t) :
        r \in 0..(Pow2(RecBits) - 1), t \in 0..(Pow2(TsBits) - 1)}
OneBitChanged(g) ==
    {FlipRec(g, k) : k \in 0..(RecBits - 1)}
    \cup {FlipTs(g, k) : k \in 0..(TsBits - 1)}
    \cup {FlipTag(g, j) : j \in 1..TAG_LEN}
AuthEnvelopes ==
    SenderEnvelopes \cup UNION {OneBitChanged(g) : g \in SenderEnvelopes}

\* psutil.cpu_percent readings (tenths of a percent) and random.random()
\* draws (over ProbDen) given to the overload gate
SecocCpuInputs == {0, 600}
SecocDraws == {0, 11999}

SecocInit ==
    /\ REPLAY_CACHE = <<>>
    /\ REPLAY_SET = {}
    /\ s_now = SecocNow0
    /\ s_last = [env |-> AbortedEnvelope, now |-> SecocNow0, cpu |-> 0, draw |-> 0,
                 cached |-> FALSE, outcome |-> "none"]

\* whether handle_connection gets as far as compute_drop_prob and
\* random.random() with this envelope
ReachesGate(env) ==
    SecocOutcome(env, s_now, REPLAY_SET, 0, 0) \in {"unpack_error", "done"}

\* main's accept loop: one connection at a time, handled to its end; the CPU
\* reading (or psutil raising) and the draw are consumed only when the
\* overload gate is reached
SecocServe ==
    \E env \in SecocEnvelopes :
        IF ReachesGate(env)
        THEN \E raises \in BOOLEAN, cpu10 \in SecocCpuInputs, draw \in SecocDraws :
                handle_connection(env, raises, cpu10, draw)
        ELSE handle_connection(env, FALSE, 0, 0)

\* time.time() advances by a second
SecocTick ==
    /\ s_now < SecocNow0 + MaxTicks
    /\ s_now' = s_now + 1
    /\ UNCHANGED <<REPLAY_CACHE, REPLAY_SET, s_last>>

\* one connection delivering a drawn envelope to a receiver that has seen
\* nothing yet
AuthInit ==
    a_in \in [env : AuthEnvelopes, cpu : SecocCpuInputs, draw : SecocDraws]

AuthDeliver ==
    /\ s_last.outcome = "none"
    /\ handle_connection(a_in.env, FALSE, a_in.cpu, a_in.draw)

-----------------------------------------------------------------------------
(* SECOC receiver: main's accept loop around handle_connection *)

\* the ways handle_connection(conn, addr) comes back to main: each of its
\* return statements and its end
SecocReturns ==
    {"aborted", "too_short", "stale", "future", "hmac_mismatch", "replay",
     "overload", "unpack_error", "done"}

\* faulty variant: the errors of the reads are not caught in
\* handle_connection
Escapes_aborted(outcome) == outcome = "aborted"

\* whether handling ends with an exception that reaches main's
\* "except Exception" clause, which is outside the while loop
Escapes(outcome) == outcome \notin SecocReturns

\* the envelopes the loop is served: two valid ones, a stale and a future
\* one, a wrong tag, a short and a long message, a short read
LoopEnvelopes ==
    {SenderEnvelope(SECRET_KEY, r, SecocNow0) : r \in {0, 1}}
    \cup {SenderEnvelope(SECRET_KEY, 0, SecocNow0 + d) :
            d \in {-(FRESHNESS_MAX_AGE + 1), FRESHNESS_FUTURE_TOL + 1}}
    \cup {FlipTag(BaseEnvelope, 1)}
    \cup {Envelope(Message(MIN_MSG_LEN - 1, 0, SecocNow0), BaseEnvelope.tag)}
    \cup {LET m == Message(MIN_MSG_LEN + 1, 0, SecocNow0)
          IN  Envelope(m, Prefix(Hmac(SECRET_KEY, m), TAG_LEN))}
    \cup {AbortedEnvelope}

\* what a connection brings: its envelope, and the CPU reading of the host
\* and the next value of the random generator while it is handled
SecocConns == [env : LoopEnvelopes, cpu : SecocCpuInputs, draw : SecocDraws]

\* main has bound its socket and enters the loop
LoopInit ==
    /\ s_pc = "accept"
    /\ s_conn = None

\* conn, addr = s.accept(), which blocks until a client connects
SecocAccept ==
    /\ s_pc = "accept"
    /\ \E c \in SecocConns : s_conn' = Some(c)
    /\ s_pc' = "handling"
    /\ UNCHANGED <<REPLAY_CACHE, REPLAY_SET, s_now, s_last>>

\* with conn: handle_connection(conn, addr); then the next turn of the
\* loop, or main's except clause
SecocHandle ==
    /\ s_pc = "handling"
    /\ handle_connection(s_conn[1].env, FALSE, s_conn[1].cpu, s_conn[1].draw)
    /\ s_pc' = IF Escapes(s_last'.outcome) THEN "fatal" ELSE "accept"
    /\ s_conn' = None

\* KeyboardInterrupt: "SECOC receiver shutting down (user interrupt)."
SecocInterrupt ==
    /\ s_pc \in {"accept", "handling"}
    /\ s_pc' = "stopped"
    /\ s_conn' = None
    /\ UNCHANGED <<REPLAY_CACHE, REPLAY_SET, s_now, s_last>>

-----------------------------------------------------------------------------
(* record_replay called directly *)

ReplayHashes == 1..(REPLAY_CACHE_SIZE + ExtraHashes)

ReplayInit ==
    /\ r_recorded = <<>>
    /\ r_last = [calls |-> 0, arg |-> 0, recent |-> FALSE, ret |-> FALSE]

CallRecordReplay ==
    \E h \in ReplayHashes :
        LET rr == record_replay(REPLAY_CACHE, REPLAY_SET, h)
        IN  /\ rr.ret => Len(r_recorded) < MaxRecorded
            /\ REPLAY_CACHE' = rr.cache
            /\ REPLAY_SET' = rr.set
            /\ r_recorded' = IF rr.ret THEN Append(r_recorded, h) ELSE r_recorded
            /\ r_last' = [calls |-> 1, arg |-> h,
                          recent |-> h \in Range(Suffix(r_recorded, REPLAY_CACHE_SIZE)),
                          ret |-> rr.ret]
            /\ UNCHANGED <<s_now, s_last>>

-----------------------------------------------------------------------------
(* compute_drop_prob and the freshness checks applied to drawn inputs *)

\* the largest reading drawn, in tenths of a percent
MaxCpu10 == 1100

CpuReadings ==
    (0..12) \cup {25 * k : k \in 0..(MaxCpu10 \div 25)} \cup (1015..1025)

ProbInit ==
    /\ c_in \in [a : CpuReadings, b : CpuReadings, raises : BOOLEAN]
    /\ c_out = [done |-> FALSE, pa |-> 0, pb |-> 0, cpu |-> 0]

ApplyDropProb ==
    /\ ~c_out.done
    /\ c_out' = [done |-> TRUE,
                 pa   |-> compute_drop_prob(c_in.raises, c_in.a).prob,
                 pb   |-> compute_drop_prob(c_in.raises, c_in.b).prob,
                 cpu  |-> compute_drop_prob(c_in.raises, c_in.a).cpu]
    /\ UNCHANGED c_in

\* the receiver's clock and the span of timestamps around it
FreshNow0 == 100
FreshSpan == 40

FreshInit ==
    /\ f_in \in [now : FreshNow0..(FreshNow0 + 2),
                 ts  : (FreshNow0 - FreshSpan)..(FreshNow0 + FreshSpan)]
    /\ f_out = [done |-> FALSE, secoc |-> "none", pqc |-> "none"]

ApplyFreshness ==
    /\ ~f_out.done
    /\ f_out' = [done  |-> TRUE,
                 secoc |-> SecocFreshness(f_in.now, f_in.ts),
                 pqc   |-> PqcFreshness(f_in.now, f_in.ts)]
    /\ UNCHANGED f_in

-----------------------------------------------------------------------------
(* PQC receiver: envelopes, signatures and fingerprints *)

\* the PQC receiver's int(time.time()); it does not advance within a behaviour
PqcNow == 100

\* oqs: signer.sign(message) under the key pair `key`
Sign(key, msg) == [signer |-> key, over |-> msg]

\* an envelope as read off the wire: message, signature, public key (key 0
\* stands for bytes that are no Dilithium2 public key)
PqcEnvelope(msg, sig, pk) == [aborted |-> FALSE, msg |-> msg, sig |-> sig, pk |-> pk]

\* sender_pqc.py: a 56-byte message signed under a fresh key pair
PqcSenderEnvelope(key, rec, ts) ==
    LET message == Message(PAYLOAD_LEN + 8, rec, ts)
    IN  PqcEnvelope(message, Sign(key, message), key)

\* a connection that closes or times out before the envelope is complete
PqcAborted ==
    [aborted |-> TRUE, msg |-> Message(0, 0, 0),
     sig |-> Sign(0, Message(0, 0, 0)), pk |-> 0]

\* verifier.verify(message, signature, public_key): "raise" for a malformed
\* key, otherwise whether the signature is the key's signature of the message
Verify(msg, sig, pk) ==
    IF pk = 0 THEN "raise"
    ELSE IF sig.signer = pk /\ sig.over = msg THEN "valid"
    ELSE "invalid"

\* hashlib.sha256(message + signature).hexdigest(), taken to be collision
\* free: the public key is not part of it
PqcFingerprint(env) == <<env.msg.len, env.msg.rec, env.msg.ts, env.sig>>

\* struct.unpack(">Q", message[-8:]) needs 8 bytes
FreshnessParses(msg) == msg.len >= 8

-----------------------------------------------------------------------------
(* PQC receiver: main, the connection handlers, the workers *)

Conns == 1..MaxConns
Workers == 1..NUM_WORKERS

\* the None sentinel as a queue item; any other item is the number of the
\* connection (addr) whose envelope it carries
NoneItem == 0

\* MSG_QUEUE.put / put_nowait once there is room
QueuePut(item) ==
    /\ MSG_QUEUE' = Append(MSG_QUEUE, item)
    /\ unfinished_tasks' = unfinished_tasks + 1

\* main: conn, addr = s.accept(); a handler thread is started for it
Accept ==
    /\ m_pc = "accept"
    /\ \E a \in Conns :
        /\ h_pc[a] = "unborn"
        /\ \A b \in Conns : b < a => h_pc[b] # "unborn"
        /\ h_pc' = [h_pc EXCEPT ![a] = "reading"]
    /\ UNCHANGED <<MSG_QUEUE, unfinished_tasks, SEEN_HASHES, m_pc, m_pushed,
                   w_pc, w_item, p_traffic, p_result, p_everQueued>>

\* main: KeyboardInterrupt (or any exception) leaves the accept loop for the
\* finally block
Interrupt ==
    /\ m_pc = "accept"
    /\ m_pc' = "sentinels"
    /\ UNCHANGED <<MSG_QUEUE, unfinished_tasks, SEEN_HASHES, m_pushed, h_pc,
                   w_pc, w_item, p_traffic, p_result, p_everQueued>>

\* main: MSG_QUEUE.put(None), which blocks while the queue is full
PushSentinel ==
    /\ m_pc = "sentinels"
    /\ Len(MSG_QUEUE) < QUEUE_MAXSIZE
    /\ QueuePut(NoneItem)
    /\ m_pushed' = m_pushed + 1
    /\ m_pc' = IF m_pushed + 1 = NUM_WORKERS THEN "join" ELSE "sentinels"
    /\ UNCHANGED <<SEEN_HASHES, h_pc, w_pc, w_item, p_traffic, p_result,
                   p_everQueued>>

\* main: MSG_QUEUE.join() returns once every item put has been task_done;
\* main returns and the process ends, taking its daemon threads with it
Join ==
    /\ m_pc = "join"
    /\ unfinished_tasks = 0
    /\ m_pc' = "exit"
    /\ UNCHANGED <<MSG_QUEUE, unfinished_tasks, SEEN_HASHES, m_pushed, h_pc,
                   w_pc, w_item, p_traffic, p_result, p_everQueued>>

\* faulty variant: the put waits for room instead of dropping
HandlerPut_blocking(a) ==
    /\ Len(MSG_QUEUE) < QUEUE_MAXSIZE
    /\ QueuePut(a)
    /\ p_everQueued' = p_everQueued \cup {a}
    /\ h_pc' = [h_pc EXCEPT ![a] = "queued"]

\* MSG_QUEUE.put_nowait((message, signature, public_key, addr)), and the
\* except queue.Full branch
HandlerPut(a) ==
    IF Len(MSG_QUEUE) >= QUEUE_MAXSIZE
    THEN /\ h_pc' = [h_pc EXCEPT ![a] = "queue_full"]
         /\ UNCHANGED <<MSG_QUEUE, unfinished_tasks, p_everQueued>>
    ELSE /\ QueuePut(a)
         /\ p_everQueued' = p_everQueued \cup {a}
         /\ h_pc' = [h_pc EXCEPT ![a] = "queued"]

\* faulty variant: the threshold is inclusive
OverLimit_ge(cpu10, draw) == cpu10 >= CPU_LIMIT \/ draw < DROP_PROB_BASE

\* cpu > CPU_LIMIT or random.random() < DROP_PROB_BASE
OverLimit(cpu10, draw) == cpu10 > CPU_LIMIT \/ draw < DROP_PROB_BASE

\* handle_connection(conn, addr), run by the connection's own thread: the
\* three length-prefixed fields arrive, or recv_exact raises and the handler
\* logs and returns; then the pre-admission check on the CPU reading and the
\* draw this connection gets; then the put.  The reads and the check touch
\* nothing shared, so the thread's one shared step, the put, carries them.
handle_connection_pqc(a) ==
    /\ m_pc # "exit"
    /\ h_pc[a] = "reading"
    /\ IF p_traffic[a].env.aborted
       THEN /\ h_pc' = [h_pc EXCEPT ![a] = "incomplete"]
            /\ UNCHANGED <<MSG_QUEUE, unfinished_tasks, p_everQueued>>
       ELSE IF OverLimit(p_traffic[a].cpu, p_traffic[a].draw)
       THEN /\ h_pc' = [h_pc EXCEPT ![a] = "drop"]
            /\ UNCHANGED <<MSG_QUEUE, unfinished_tasks, p_everQueued>>
       ELSE HandlerPut(a)
    /\ UNCHANGED <<SEEN_HASHES, m_pc, m_pushed, w_pc, w_item, p_traffic, p_result>>

\* faulty variant: the item is read but left on the queue
WorkerGet_peek(w) ==
    /\ m_pc # "exit"
    /\ w_pc[w] = "get"
    /\ \A v \in Workers : v < w => w_pc[v] # "get"
    /\ MSG_QUEUE # <<>>
    /\ w_item' = [w_item EXCEPT ![w] = Head(MSG_QUEUE)]
    /\ w_pc' = [w_pc EXCEPT ![w] = IF Head(MSG_QUEUE) = NoneItem THEN "break" ELSE "check"]
    /\ UNCHANGED <<MSG_QUEUE, unfinished_tasks, SEEN_HASHES, m_pc, m_pushed, h_pc,
                   p_traffic, p_result, p_everQueued>>

\* worker: msg = MSG_QUEUE.get(), which blocks while the queue is empty; of
\* the workers waiting in get, which are interchangeable, the lowest-numbered
\* one is taken to receive the item
WorkerGet(w) ==
    /\ m_pc # "exit"
    /\ w_pc[w] = "get"
    /\ \A v \in Workers : v < w => w_pc[v] # "get"
    /\ MSG_QUEUE # <<>>
    /\ MSG_QUEUE' = Tail(MSG_QUEUE)
    /\ w_item' = [w_item EXCEPT ![w] = Head(MSG_QUEUE)]
    /\ w_pc' = [w_pc EXCEPT ![w] = IF Head(MSG_QUEUE) = NoneItem THEN "break" ELSE "check"]
    /\ UNCHANGED <<unfinished_tasks, SEEN_HASHES, m_pc, m_pushed, h_pc,
                   p_traffic, p_result, p_everQueued>>

\* handle_message up to the replay lookup: the freshness parse, the 30 s
\* window, msg_hash in SEEN_HASHES
WorkerCheck(w) ==
    LET env == p_traffic[w_item[w]].env
        out == IF ~FreshnessParses(env.msg) THEN "bad_freshness"
               ELSE IF PqcFreshness(PqcNow, env.msg.ts) # "ok" THEN "not_fresh"
               ELSE IF PqcFingerprint(env) \in SEEN_HASHES THEN "replay"
               ELSE "pass"
    IN  /\ m_pc # "exit"
        /\ w_pc[w] = "check"
        /\ IF out = "pass"
           THEN /\ w_pc' = [w_pc EXCEPT ![w] = "add"]
                /\ UNCHANGED p_result
           ELSE /\ w_pc' = [w_pc EXCEPT ![w] = "task_done"]
                /\ p_result' = [p_result EXCEPT ![w_item[w]] = out]
        /\ UNCHANGED <<MSG_QUEUE, unfinished_tasks, SEEN_HASHES, m_pc, m_pushed,
                       h_pc, w_item, p_traffic, p_everQueued>>

\* SEEN_HASHES.add(msg_hash)
WorkerAdd(w) ==
    /\ m_pc # "exit"
    /\ w_pc[w] = "add"
    /\ SEEN_HASHES' = SEEN_HASHES \cup {PqcFingerprint(p_traffic[w_item[w]].env)}
    /\ w_pc' = [w_pc EXCEPT ![w] = "len"]
    /\ UNCHANGED <<MSG_QUEUE, unfinished_tasks, m_pc, m_pushed, h_pc, w_item,
                   p_traffic, p_result, p_everQueued>>

\* faulty variant: the cache is let grow one entry further before evicting
OverCapacity_late(n) == n > MAX_HASHES + 1

\* len(SEEN_HASHES) > MAX_HASHES
OverCapacity(n) == n > MAX_HASHES

WorkerLen(w) ==
    /\ m_pc # "exit"
    /\ w_pc[w] = "len"
    /\ w_pc' = [w_pc EXCEPT ![w] =
                  IF OverCapacity(Cardinality(SEEN_HASHES)) THEN "pop" ELSE "verify"]
    /\ UNCHANGED <<MSG_QUEUE, unfinished_tasks, SEEN_HASHES, m_pc, m_pushed, h_pc,
                   w_item, p_traffic, p_result, p_everQueued>>

\* SEEN_HASHES.pop(): removes an arbitrary element; on an empty set it raises
\* KeyError, which worker's except clause logs
WorkerPop(w) ==
    /\ m_pc # "exit"
    /\ w_pc[w] = "pop"
    /\ IF SEEN_HASHES = {}
       THEN /\ w_pc' = [w_pc EXCEPT ![w] = "task_done"]
            /\ p_result' = [p_result EXCEPT ![w_item[w]] = "worker_error"]
            /\ UNCHANGED SEEN_HASHES
       ELSE /\ \E x \in SEEN_HASHES : SEEN_HASHES' = SEEN_HASHES \ {x}
            /\ w_pc' = [w_pc EXCEPT ![w] = "verify"]
            /\ UNCHANGED p_result
    /\ UNCHANGED <<MSG_QUEUE, unfinished_tasks, m_pc, m_pushed, h_pc, w_item,
                   p_traffic, p_everQueued>>

\* worker's finally: MSG_QUEUE.task_done(), then the next turn of the loop,
\* or the thread's end after the None sentinel
TaskDone(w) ==
    /\ unfinished_tasks' = unfinished_tasks - 1
    /\ w_pc' = [w_pc EXCEPT ![w] = IF w_pc[w] = "break" THEN "exited" ELSE "get"]
    /\ w_item' = [w_item EXCEPT ![w] = NoneItem]

\* the rest of handle_message: the verification, the simulated workload and
\* the [DONE] log line, none of which touches anything shared; then worker's
\* finally
WorkerVerify(w) ==
    LET env == p_traffic[w_item[w]].env
        v   == Verify(env.msg, env.sig, env.pk)
    IN  /\ m_pc # "exit"
        /\ w_pc[w] = "verify"
        /\ p_result' = [p_result EXCEPT ![w_item[w]] =
                          IF v = "raise" THEN "verify_error"
                          ELSE IF v = "invalid" THEN "sig_failed"
                          ELSE "verified"]
        /\ TaskDone(w)
        /\ UNCHANGED <<MSG_QUEUE, SEEN_HASHES, m_pc, m_pushed, h_pc,
                       p_traffic, p_everQueued>>

\* worker's finally after an early return of handle_message, after an
\* exception, or after the None sentinel
WorkerTaskDone(w) ==
    /\ m_pc # "exit"
    /\ w_pc[w] \in {"task_done", "break"}
    /\ TaskDone(w)
    /\ UNCHANGED <<MSG_QUEUE, SEEN_HASHES, m_pc, m_pushed, h_pc,
                   p_traffic, p_result, p_everQueued>>

\* the envelopes of the traffic: sender-built and fresh (one per record
\* value), sender-built but 31 s old, a signature over another message, a
\* malformed public key, a message too short for a freshness field
PqcValid(r) == PqcSenderEnvelope(1, r, PqcNow)
PqcOld == PqcSenderEnvelope(1, 0, PqcNow - (PQC_FRESH_WINDOW + 1))
PqcBadSig ==
    PqcEnvelope(Message(PAYLOAD_LEN + 8, 1, PqcNow),
                Sign(1, Message(PAYLOAD_LEN + 8, 0, PqcNow)), 1)
PqcBadKey == [PqcValid(2) EXCEPT !.pk = 0]
PqcShort == PqcEnvelope(Message(5, 0, 0), Sign(1, Message(5, 0, 0)), 1)
\* a fresh message one byte longer than a record and its freshness field,
\* signed by the client that sends it
PqcLong ==
    LET message == Message(PAYLOAD_LEN + 9, 0, PqcNow)
    IN  PqcEnvelope(message, Sign(1, message), 1)

\* one connection of the traffic: its envelope, and the psutil.cpu_percent
\* reading (tenths of a percent) and random.random() draw (hundredths) its
\* pre-admission check gets
Delivery(env, cpu10, draw) == [env |-> env, cpu |-> cpu10, draw |-> draw]

\* what the connections deliver, in accept order: all the same envelope, all
\* different ones, runs of the malformed ones (each of them admitted),
\* different ones under the CPU readings and draws of PqcLoad, and the
\* over-long message followed by short reads
PqcMixed == <<PqcOld, PqcBadSig, PqcBadKey, PqcShort, PqcAborted, PqcValid(0)>>
PqcLoad ==
    <<[cpu |-> CPU_LIMIT, draw |-> 50], [cpu |-> CPU_LIMIT + 1, draw |-> 50],
      [cpu |-> 0, draw |-> 5], [cpu |-> 0, draw |-> 50]>>
Cyclic(seq, i) == seq[((i - 1) % Len(seq)) + 1]
PqcTraffic ==
    { [a \in Conns |-> Delivery(PqcValid(0), 0, 50)],
      [a \in Conns |-> Delivery(PqcValid(a), 0, 50)] }
    \cup { [a \in Conns |-> Delivery(Cyclic(PqcMixed, a + k), 0, 50)] : k \in {0, 2, 4} }
    \cup { [a \in Conns |-> Delivery(PqcValid(a), Cyclic(PqcLoad, a + k).cpu,
                                     Cyclic(PqcLoad, a + k).draw)] : k \in {0, 2} }
    \cup { [a \in Conns |-> Delivery(IF a = 1 THEN PqcLong ELSE PqcAborted, 0, 50)] }

\* the receiver after main has started its workers and is about to accept
PqcStart ==
    /\ MSG_QUEUE = <<>>
    /\ unfinished_tasks = 0
    /\ SEEN_HASHES = {}
    /\ m_pc = "accept"
    /\ m_pushed = 0
    /\ h_pc = [a \in Conns |-> "unborn"]
    /\ w_pc = [w \in Workers |-> "get"]
    /\ w_item = [w \in Workers |-> NoneItem]
    /\ p_result = [a \in Conns |-> "none"]
    /\ p_everQueued = {}

PqcInit == PqcStart /\ p_traffic \in PqcTraffic

\* the worker pool under more messages than workers: main has accepted
\* NUM_WORKERS + 1 connections and started their threads, none has run yet.
\* Two of them deliver the same envelope, one a malformed public key, one a
\* message too short for a freshness field.
PoolConns == 1..(NUM_WORKERS + 1)
PoolEnvelopes == <<PqcValid(0), PqcValid(0), PqcValid(1), PqcBadKey, PqcShort>>
PoolInit ==
    /\ MSG_QUEUE = <<>>
    /\ unfinished_tasks = 0
    /\ SEEN_HASHES = {}
    /\ m_pc = "accept"
    /\ m_pushed = 0
    /\ h_pc = [a \in PoolConns |-> "reading"]
    /\ w_pc = [w \in Workers |-> "get"]
    /\ w_item = [w \in Workers |-> NoneItem]
    /\ p_result = [a \in PoolConns |-> "none"]
    /\ p_everQueued = {}
    /\ p_traffic = [a \in PoolConns |-> Delivery(Cyclic(PoolEnvelopes, a), 0, 50)]

-----------------------------------------------------------------------------
(* Load generator: src/dos_simulator.py, run_scenario with LoadGen in       *)
(* churn, steady and long mode.  asyncio runs one coroutine at a time, so a *)
(* step is the code from one await to the next.  Timestamps and latencies   *)
(* are not modelled; whether run_long's hold time has elapsed is drawn at   *)
(* each test of its loop after the first.                                   *)

\* the largest --total drawn
MaxTotal == 3
\* the largest --concurrency drawn
MaxConcurrency == 2
\* scaled: run_steady(iterations=100) at src/dos_simulator.py:178
STEADY_ITERATIONS == 2
\* rows the sampler takes in one behaviour
MaxSamples == 1
\* rounds of run_long after which the hold time has elapsed at the latest
MaxRounds == 2

Max(a, b) == IF a >= b THEN a ELSE b
MaxTasks == Max(MaxTotal, STEADY_ITERATIONS * MaxConcurrency)
TaskIds == 0..(MaxTasks - 1)

\* args.host not in ("127.0.0.1", "localhost")
LocalHosts == {"127.0.0.1", "localhost"}
Hosts == LocalHosts \cup {"192.0.2.7"}

\* what the peer does with a connection: "echo" accepts and echoes the line,
\* "refuse" refuses every connection, "faulty" may do anything at each step
Targets == {"echo", "refuse", "faulty"}

\* len(self.payload + b"\n") for the default payload b"ping"
LINE_LEN == 5

\* "err": None of a successful result
ErrNone == "<None>"

\* str(e) of the exception an await raised; str(asyncio.TimeoutError()) is ""
ErrText(e) ==
    CASE e = "refused" -> "[Errno 111] Connect call failed"
      [] e \in {"connect_timeout", "timeout"} -> ""
      [] e = "reset"   -> "[Errno 104] Connection reset by peer"

\* asyncio.wait_for(asyncio.open_connection(...), timeout)
ConnectOutcomes(target) ==
    CASE target = "echo"   -> {"ok"}
      [] target = "refuse" -> {"refused"}
      [] target = "faulty" -> {"ok", "refused", "connect_timeout"}

\* writer.drain()
DrainOutcomes(target) ==
    IF target = "faulty" THEN {"ok", "reset"} ELSE {"ok"}

\* asyncio.wait_for(reader.readline(), timeout): a line, b"" at end of
\* stream, asyncio.TimeoutError, or another exception
ReadOutcomes(target) ==
    IF target = "faulty" THEN {"line", "eof", "timeout", "reset"} ELSE {"line"}

\* the command lines drawn; --total is used by churn only, and the faulty
\* target is met by churn runs of MaxTotal attempts through one slot, by
\* shorter ones through more slots, and by steady runs of one attempt a batch
LoadArgs ==
    [host : LocalHosts, allow_remote : {FALSE}, mode : {"churn"},
     concurrency : 0..MaxConcurrency, total : 0..MaxTotal, target : {"echo", "refuse"}]
    \cup [host : {"localhost"}, allow_remote : {FALSE}, mode : {"churn"},
          concurrency : {1}, total : {MaxTotal}, target : {"faulty"}]
    \cup [host : {"localhost"}, allow_remote : {FALSE}, mode : {"churn"},
          concurrency : 2..MaxConcurrency, total : {MaxTotal - 1}, target : {"faulty"}]
    \cup [host : {"localhost"}, allow_remote : {FALSE}, mode : {"steady"},
          concurrency : 0..MaxConcurrency, total : {MaxTotal}, target : {"echo", "refuse"}]
    \cup [host : {"localhost"}, allow_remote : {FALSE}, mode : {"steady"},
          concurrency : {1}, total : {MaxTotal}, target : {"faulty"}]
    \cup [host : Hosts \ LocalHosts, allow_remote : BOOLEAN, mode : {"churn", "steady"},
          concurrency : {MaxConcurrency}, total : {MaxTotal - 1}, target : {"echo", "refuse"}]

\* asyncio.open_connection(host, port) of run_long, which sets no timeout;
\* a "busy" peer accepts some connections, refuses others, and echoes on
\* those it accepted
OpenOutcomes(target) ==
    CASE target = "echo"   -> {"ok"}
      [] target = "refuse" -> {"refused"}
      [] target \in {"faulty", "busy"} -> {"ok", "refused"}

\* the command lines of the long mode, the faulty target being met on one
\* connection, and those of the runs during which LoadGen.stop() may be
\* called
LongArgs ==
    [host : {"localhost"}, allow_remote : {FALSE}, mode : {"long"},
     concurrency : 0..MaxConcurrency, total : {MaxTotal},
     target : {"echo", "refuse", "busy"}]
    \cup [host : {"localhost"}, allow_remote : {FALSE}, mode : {"long"},
          concurrency : {1}, total : {MaxTotal}, target : {"faulty"}]
StopArgs ==
    LongArgs
    \cup [host : {"localhost"}, allow_remote : {FALSE}, mode : {"steady"},
          concurrency : 0..MaxConcurrency, total : {MaxTotal}, target : {"echo", "refuse"}]
    \cup [host : {"localhost"}, allow_remote : {FALSE}, mode : {"steady"},
          concurrency : {1}, total : {MaxTotal}, target : {"faulty"}]
    \cup [host : {"localhost"}, allow_remote : {FALSE}, mode : {"churn"},
          concurrency : {1}, total : {MaxTotal - 1}, target : {"echo", "faulty"}]

\* a task running _one or _send_persistent: where it is, len(data) once the read has ended, and
\* (history) how its last await ended
Task(pc, data, last) == [pc |-> pc, data |-> data, last |-> last]

LoadInit ==
    /\ l_pc = "start"
    /\ l_sem = 0
    /\ l_task = [i \in TaskIds |-> Task("absent", 0, "none")]
    /\ l_iter = 0
    /\ results = <<>>
    /\ l_sampler = [created |-> FALSE, started |-> FALSE, running |-> FALSE, rows |-> 0]
    /\ l_files = {}
    /\ l_exit = -1
    /\ l_stop = FALSE
    /\ l_long = [next |-> 0, opened |-> <<>>, round |-> 0, closed |-> {}]

\* faulty variant: the override flag is read the wrong way round
RemoteRefused_inverted(args) == args.host \notin LocalHosts /\ args.allow_remote

\* the guard at the head of run_scenario
RemoteRefused(args) == args.host \notin LocalHosts /\ ~args.allow_remote

\* faulty variant: the last index is left out
CreateTasks_skip_last(ids) ==
    l_task' = [i \in TaskIds |-> IF i \in ids /\ i + 1 \in ids
                                   THEN Task("created", 0, "none") ELSE l_task[i]]

\* tasks.append(asyncio.create_task(self._one(i))) for the indices in ids
CreateTasks(ids) ==
    l_task' = [i \in TaskIds |-> IF i \in ids THEN Task("created", 0, "none") ELSE l_task[i]]

\* faulty variant: the stop flag is not read by the loop of run_long
LongLoop_ignores_stop(long, elapsed) ==
    IF ~elapsed
    THEN IF long.opened = <<>>
         THEN /\ l_task' = l_task
              /\ l_long' = [long EXCEPT !.round = @ + 1]
              /\ l_pc' = "p_sleep"
         ELSE /\ l_task' = [i \in TaskIds |->
                               IF i < Len(long.opened) THEN Task("p_created", 0, "none")
                                                       ELSE l_task[i]]
              /\ l_long' = long
              /\ l_pc' = "p_gather"
    ELSE /\ l_task' = l_task
         /\ l_long' = [long EXCEPT !.closed = 0..(Len(long.opened) - 1)]
         /\ l_pc' = "ran"

\* run_long from the test of its while loop to the next await: a round of
\* _send_persistent coroutines, one per opened connection, handed to gather
\* (a gather of none is done at once, and the round ends in the sleep); or,
\* the hold time elapsed or the stop flag set, the finally that closes every
\* writer
LongLoop(long, elapsed) ==
    IF ~elapsed /\ ~l_stop
    THEN IF long.opened = <<>>
         THEN /\ l_task' = l_task
              /\ l_long' = [long EXCEPT !.round = @ + 1]
              /\ l_pc' = "p_sleep"
         ELSE /\ l_task' = [i \in TaskIds |->
                               IF i < Len(long.opened) THEN Task("p_created", 0, "none")
                                                       ELSE l_task[i]]
              /\ l_long' = long
              /\ l_pc' = "p_gather"
    ELSE /\ l_task' = l_task
         /\ l_long' = [long EXCEPT !.closed = 0..(Len(long.opened) - 1)]
         /\ l_pc' = "ran"

\* run_scenario up to its first await: the guard, the sampler and LoadGen
\* constructors, create_task(sampler.run()), and load.run() up to the gather
\* of run_churn or of the first batch of run_steady, or up to the first
\* open_connection of run_long (its loop, when there is none to open)
ScenarioStart ==
    /\ l_pc = "start"
    /\ IF RemoteRefused(l_args)
       THEN /\ l_exit' = 1
            /\ l_pc' = "returned"
            /\ UNCHANGED <<l_sem, l_task, l_iter, l_sampler>>
       ELSE /\ l_sampler' = [l_sampler EXCEPT !.created = TRUE]
            /\ l_sem' = l_args.concurrency
            /\ l_exit' = l_exit
            /\ IF l_args.mode = "churn"
               THEN /\ CreateTasks(0..(l_args.total - 1))
                    /\ l_iter' = l_iter
                    /\ l_pc' = IF l_args.total > 0 THEN "gather" ELSE "ran"
               ELSE IF l_args.mode = "steady"
               THEN /\ CreateTasks(0..(l_args.concurrency - 1))
                    /\ l_iter' = 1
                    /\ l_pc' = "gather"
               ELSE /\ l_iter' = l_iter
                    /\ IF l_args.concurrency > 0
                       THEN /\ l_pc' = "opening"
                            /\ UNCHANGED l_task
                       ELSE LongLoop(l_long, FALSE)
    /\ IF ~RemoteRefused(l_args) /\ l_args.mode = "long" /\ l_args.concurrency = 0
       THEN TRUE ELSE l_long' = l_long
    /\ UNCHANGED <<l_args, results, l_files, l_stop>>

\* the end of `async with self._sem`: Semaphore.release()
Release == l_sem' = l_sem + 1

\* faulty variant: the slot is kept when the attempt ends in an exception
Fail_keeps_slot(i, e) ==
    /\ results' = Append(results, [idx |-> i, success |-> FALSE, resp_len |-> 0,
                                   err |-> ErrText(e)])
    /\ l_sem' = l_sem
    /\ l_task' = [l_task EXCEPT ![i] = Task("done", 0, e)]

\* the except branch of _one: one failure result, then the slot is released
Fail(i, e) ==
    /\ results' = Append(results, [idx |-> i, success |-> FALSE, resp_len |-> 0,
                                   err |-> ErrText(e)])
    /\ Release
    /\ l_task' = [l_task EXCEPT ![i] = Task("done", 0, e)]

\* `async with self._sem`: the task takes a slot when one is free and goes on
\* to await the connection, and waits otherwise
Acquire(i) ==
    /\ l_task[i].pc \in {"created", "waiting"}
    /\ IF l_sem > 0
       THEN /\ l_sem' = l_sem - 1
            /\ l_task' = [l_task EXCEPT ![i] = Task("connecting", 0, "ok")]
       ELSE /\ l_task[i].pc = "created"
            /\ l_task' = [l_task EXCEPT ![i] = Task("waiting", 0, "none")]
            /\ l_sem' = l_sem
    /\ UNCHANGED <<l_args, l_pc, l_iter, results, l_sampler, l_files, l_exit, l_stop, l_long>>

\* the connection attempt ends; on success the payload is written and the
\* task awaits writer.drain()
Connect(i) ==
    /\ l_task[i].pc = "connecting"
    /\ \E o \in ConnectOutcomes(l_args.target) :
          IF o = "ok"
          THEN /\ l_task' = [l_task EXCEPT ![i] = Task("draining", 0, "ok")]
               /\ UNCHANGED <<l_sem, results>>
          ELSE Fail(i, o)
    /\ UNCHANGED <<l_args, l_pc, l_iter, l_sampler, l_files, l_exit, l_stop, l_long>>

Drain(i) ==
    /\ l_task[i].pc = "draining"
    /\ \E o \in DrainOutcomes(l_args.target) :
          IF o = "ok"
          THEN /\ l_task' = [l_task EXCEPT ![i] = Task("reading", 0, "ok")]
               /\ UNCHANGED <<l_sem, results>>
          ELSE Fail(i, o)
    /\ UNCHANGED <<l_args, l_pc, l_iter, l_sampler, l_files, l_exit, l_stop, l_long>>

\* len(data) after the read: the line, b"" at end of stream, and b"" when
\* asyncio.TimeoutError was caught
DataLen(o) == IF o = "line" THEN LINE_LEN ELSE 0

\* faulty variant: asyncio.TimeoutError of the read is not caught
Read_timeout_fails(i) ==
    /\ l_task[i].pc = "reading"
    /\ \E o \in ReadOutcomes(l_args.target) :
          IF o \in {"reset", "timeout"}
          THEN Fail(i, o)
          ELSE /\ l_task' = [l_task EXCEPT ![i] = Task("closing", DataLen(o), o)]
               /\ UNCHANGED <<l_sem, results>>
    /\ UNCHANGED <<l_args, l_pc, l_iter, l_sampler, l_files, l_exit, l_stop, l_long>>

\* the response read ends; unless it raised, the task closes the writer and
\* awaits writer.wait_closed()
Read(i) ==
    /\ l_task[i].pc = "reading"
    /\ \E o \in ReadOutcomes(l_args.target) :
          IF o = "reset"
          THEN Fail(i, o)
          ELSE /\ l_task' = [l_task EXCEPT ![i] = Task("closing", DataLen(o), o)]
               /\ UNCHANGED <<l_sem, results>>
    /\ UNCHANGED <<l_args, l_pc, l_iter, l_sampler, l_files, l_exit, l_stop, l_long>>

\* wait_closed() returns or raises (the exception is passed over); the
\* success result is appended and the slot released
Close(i) ==
    /\ l_task[i].pc = "closing"
    /\ results' = Append(results, [idx |-> i, success |-> TRUE,
                                   resp_len |-> l_task[i].data, err |-> ErrNone])
    /\ Release
    /\ l_task' = [l_task EXCEPT ![i] = Task("done", 0, l_task[i].last)]
    /\ UNCHANGED <<l_args, l_pc, l_iter, l_sampler, l_files, l_exit, l_stop, l_long>>

\* the tasks the pending gather waits for
Gathered == {i \in TaskIds : l_task[i].pc # "absent"}

\* asyncio.gather returns: run_churn ends, run_steady goes to sleep(0.01)
GatherDone ==
    /\ l_pc = "gather"
    /\ \A i \in Gathered : l_task[i].pc = "done"
    /\ l_pc' = IF l_args.mode = "churn" THEN "ran" ELSE "sleep"
    /\ UNCHANGED <<l_args, l_sem, l_task, l_iter, results, l_sampler, l_files, l_exit, l_stop, l_long>>

\* faulty variant: the next batch does not wait for the sleep after the gather
NextBatch_overlaps ==
    /\ l_pc \in {"sleep", "gather"}
    /\ IF l_iter < STEADY_ITERATIONS /\ ~l_stop
       THEN /\ CreateTasks((l_iter * l_args.concurrency)
                             ..((l_iter + 1) * l_args.concurrency - 1))
            /\ l_iter' = l_iter + 1
            /\ l_pc' = "gather"
       ELSE /\ l_pc = "sleep"
            /\ l_pc' = "ran"
            /\ UNCHANGED <<l_task, l_iter>>
    /\ UNCHANGED <<l_args, l_sem, results, l_sampler, l_files, l_exit, l_stop, l_long>>

\* run_steady after the sleep: `if self._stop: break`, then the next batch of
\* `concurrency` tasks, or the end of the loop
NextBatch ==
    /\ l_pc = "sleep"
    /\ IF l_iter < STEADY_ITERATIONS /\ ~l_stop
       THEN /\ CreateTasks((l_iter * l_args.concurrency)
                             ..((l_iter + 1) * l_args.concurrency - 1))
            /\ l_iter' = l_iter + 1
            /\ l_pc' = "gather"
       ELSE /\ l_pc' = "ran"
            /\ UNCHANGED <<l_task, l_iter>>
    /\ UNCHANGED <<l_args, l_sem, results, l_sampler, l_files, l_exit, l_stop, l_long>>

\* finally: load.stop(); sampler.stop(); await asyncio.sleep(0.05)
StopLoad ==
    /\ l_pc = "ran"
    /\ l_stop' = TRUE
    /\ l_sampler' = [l_sampler EXCEPT !.running = FALSE]
    /\ l_pc' = "stopping"
    /\ UNCHANGED <<l_args, l_sem, l_task, l_iter, results, l_files, l_exit, l_long>>

\* safe_mkdir, write_csv_requests, write_csv_system (nothing without rows),
\* the summary, return 0
WriteOut ==
    /\ l_pc = "stopping"
    /\ l_files' = {"outdir", "requests.csv", "summary.json"}
                    \cup (IF l_sampler.rows > 0 THEN {"system.csv"} ELSE {})
    /\ l_exit' = 0
    /\ l_pc' = "returned"
    /\ UNCHANGED <<l_args, l_sem, l_task, l_iter, results, l_sampler, l_stop, l_long>>

\* run_long, one `await asyncio.open_connection`: the pair is appended to
\* readers and writers, or one failure result is recorded; after the last
\* one the loop is entered, the hold time counted from there
OpenNext ==
    /\ l_pc = "opening"
    /\ \E o \in OpenOutcomes(l_args.target) :
         LET i == l_long.next
             long == [l_long EXCEPT !.next = i + 1,
                                    !.opened = IF o = "ok" THEN Append(@, i) ELSE @]
         IN /\ results' = IF o = "ok" THEN results
                           ELSE Append(results, [idx |-> i, success |-> FALSE,
                                                 resp_len |-> 0, err |-> ErrText(o)])
            /\ IF i + 1 < l_args.concurrency
               THEN /\ l_long' = long
                    /\ UNCHANGED <<l_pc, l_task>>
               ELSE LongLoop(long, FALSE)
    /\ UNCHANGED <<l_args, l_sem, l_iter, l_sampler, l_files, l_exit, l_stop>>

\* faulty variant: the exception of a send is passed over without a result
SendFail_silent(i, e) ==
    /\ results' = results
    /\ l_task' = [l_task EXCEPT ![i] = Task("p_done", 0, e)]

\* the except branch of _send_persistent: one failure result of the round
SendFail(i, e) ==
    /\ results' = Append(results, [idx |-> i, iteration |-> l_long.round,
                                   success |-> FALSE, resp_len |-> 0, err |-> ErrText(e)])
    /\ l_task' = [l_task EXCEPT ![i] = Task("p_done", 0, e)]

\* _send_persistent up to `await writer.drain()`
SendWrite(i) ==
    /\ l_task[i].pc = "p_created"
    /\ l_task' = [l_task EXCEPT ![i] = Task("p_draining", 0, "none")]
    /\ UNCHANGED <<l_args, l_pc, l_sem, l_iter, results, l_sampler, l_files, l_exit,
                   l_stop, l_long>>

\* writer.drain() returns or raises
SendDrain(i) ==
    /\ l_task[i].pc = "p_draining"
    /\ \E o \in DrainOutcomes(l_args.target) :
         IF o = "ok"
         THEN /\ l_task' = [l_task EXCEPT ![i] = Task("p_reading", 0, "ok")]
              /\ UNCHANGED results
         ELSE SendFail(i, o)
    /\ UNCHANGED <<l_args, l_pc, l_sem, l_iter, l_sampler, l_files, l_exit, l_stop, l_long>>

\* the readline of _send_persistent: a line, b"" at the end of the stream or
\* at the timeout (both a success result), or an exception
SendRead(i) ==
    /\ l_task[i].pc = "p_reading"
    /\ \E o \in ReadOutcomes(l_args.target) :
         IF o = "reset"
         THEN SendFail(i, o)
         ELSE LET n == IF o = "line" THEN LINE_LEN ELSE 0
              IN /\ results' = Append(results, [idx |-> i, iteration |-> l_long.round,
                                                success |-> TRUE, resp_len |-> n,
                                                err |-> ErrNone])
                 /\ l_task' = [l_task EXCEPT ![i] = Task("p_done", n, o)]
    /\ UNCHANGED <<l_args, l_pc, l_sem, l_iter, l_sampler, l_files, l_exit, l_stop, l_long>>

\* the gather of a round returns: iter_no += 1, then the sleep
RoundDone ==
    /\ l_pc = "p_gather"
    /\ \A i \in 0..(Len(l_long.opened) - 1) : l_task[i].pc = "p_done"
    /\ l_long' = [l_long EXCEPT !.round = @ + 1]
    /\ l_pc' = "p_sleep"
    /\ UNCHANGED <<l_args, l_sem, l_task, l_iter, results, l_sampler, l_files, l_exit,
                   l_stop>>

\* after the sleep of run_long: the test of the loop, the hold time being
\* over after MaxRounds rounds at the latest
NextRound ==
    /\ l_pc = "p_sleep"
    /\ \E elapsed \in BOOLEAN :
         /\ l_long.round >= MaxRounds => elapsed
         /\ LongLoop(l_long, elapsed)
    /\ UNCHANGED <<l_args, l_sem, l_iter, results, l_sampler, l_files, l_exit, l_stop>>

\* LoadGen.stop() called by another coroutine while run() is awaiting
StopRequested ==
    /\ l_pc \in {"gather", "sleep", "opening", "p_gather", "p_sleep"}
    /\ ~l_stop
    /\ l_stop' = TRUE
    /\ UNCHANGED <<l_args, l_pc, l_sem, l_task, l_iter, results, l_sampler, l_files,
                   l_exit, l_long>>

\* SystemSampler.run: the task's first run sets _running and takes a row;
\* after each sleep it takes another row while _running holds
Sample ==
    /\ l_sampler.created
    /\ l_pc # "returned"
    /\ ~l_sampler.started \/ l_sampler.running
    /\ l_sampler.rows < MaxSamples
    /\ l_sampler' = [l_sampler EXCEPT !.started = TRUE, !.running = TRUE,
                                      !.rows = @ + 1]
    /\ UNCHANGED <<l_args, l_pc, l_sem, l_task, l_iter, results, l_files, l_exit, l_stop, l_long>>

-----------------------------------------------------------------------------
(* summarize: src/dos_simulator.py.  A value that may be None is a sequence  *)
(* of length at most one.  Latencies are whole milliseconds; a percentile is *)
(* held in hundredths of a millisecond and the mean as a sum and a count.    *)

\* the longest list of Request Results drawn
MaxResults == 3

\* latency_ms values drawn
Latencies == {1, 8}

\* the "success" and "latency_ms" entries of a Request Result
RequestResults == [success : BOOLEAN, latency_ms : {None} \cup {Some(v) : v \in Latencies}]

RECURSIVE SeqsUpTo(_, _)
SeqsUpTo(S, n) ==
    IF n = 0 THEN {<<>>}
    ELSE LET shorter == SeqsUpTo(S, n - 1)
         IN  shorter \cup {Append(q, x) : q \in {r \in shorter : Len(r) = n - 1}, x \in S}

\* sorted(lat), as np.percentile orders its input
RECURSIVE Sorted(_)
Sorted(q) ==
    IF q = <<>> THEN <<>>
    ELSE LET m == CHOOSE i \in DOMAIN q : \A j \in DOMAIN q : q[i] <= q[j]
         IN  <<q[m]>> \o Sorted(SubSeq(q, 1, m - 1) \o SubSeq(q, m + 1, Len(q)))

RECURSIVE SeqSum(_)
SeqSum(q) == IF q = <<>> THEN 0 ELSE Head(q) + SeqSum(Tail(q))

\* np.percentile(lat, q), linear interpolation between the two nearest
\* ranks, times 100
Percentile(lat, q) ==
    LET sorted == Sorted(lat)
        n    == Len(sorted)
        pos  == q * (n - 1)
        lo   == (pos \div 100) + 1
        hi   == IF lo < n THEN lo + 1 ELSE lo
    IN  100 * sorted[lo] + (pos % 100) * (sorted[hi] - sorted[lo])

\* lat = [r["latency_ms"] for r in results if r["success"] and
\*        r.get("latency_ms") is not None]
SuccessLatencies(rs) ==
    LET kept == SelectSeq(rs, LAMBDA r : r.success /\ r.latency_ms # None)
    IN  [k \in DOMAIN kept |-> kept[k].latency_ms[1]]

\* faulty variant: the latency fields are 0 when there is no latency
summarize_zero_latency(rs) ==
    LET lat   == SuccessLatencies(rs)
        total == Len(rs)
        succ  == Len(SelectSeq(rs, LAMBDA r : r.success))
    IN  [total            |-> total,
         successes        |-> succ,
         failures         |-> total - succ,
         success_rate_pct |-> IF total > 0
                              THEN Some([num |-> succ * 100, den |-> total]) ELSE None,
         lat_p50_ms  |-> IF lat # <<>> THEN Some(Percentile(lat, 50)) ELSE Some(0),
         lat_p90_ms  |-> IF lat # <<>> THEN Some(Percentile(lat, 90)) ELSE Some(0),
         lat_p99_ms  |-> IF lat # <<>> THEN Some(Percentile(lat, 99)) ELSE Some(0),
         lat_mean_ms |-> IF lat # <<>>
                         THEN Some([sum |-> SeqSum(lat), n |-> Len(lat)]) ELSE Some(0)]

summarize(rs) ==
    LET lat   == SuccessLatencies(rs)
        total == Len(rs)
        succ  == Len(SelectSeq(rs, LAMBDA r : r.success))
    IN  [total            |-> total,
         successes        |-> succ,
         failures         |-> total - succ,
         success_rate_pct |-> IF total > 0
                              THEN Some([num |-> succ * 100, den |-> total]) ELSE None,
         lat_p50_ms  |-> IF lat # <<>> THEN Some(Percentile(lat, 50)) ELSE None,
         lat_p90_ms  |-> IF lat # <<>> THEN Some(Percentile(lat, 90)) ELSE None,
         lat_p99_ms  |-> IF lat # <<>> THEN Some(Percentile(lat, 99)) ELSE None,
         lat_mean_ms |-> IF lat # <<>>
                         THEN Some([sum |-> SeqSum(lat), n |-> Len(lat)]) ELSE None]

SumInit ==
    /\ u_in \in SeqsUpTo(RequestResults, MaxResults)
    /\ u_out = None

ApplySummarize ==
    /\ u_out = None
    /\ u_out' = Some(summarize(u_in))
    /\ UNCHANGED u_in

-----------------------------------------------------------------------------
(* normalize_can: src/normalize_results.py.  A CSV row is modelled by its    *)
(* frame_id; timestamps and the copied system.csv columns are not modelled.  *)

\* the most rows a CSV drawn has
MaxRows == 3
\* the largest frame_id and the largest override drawn
MaxFrame == 2

\* the calls drawn: the frame_id column, --frames and --successes
NormCalls ==
    [rows : SeqsUpTo(0..MaxFrame, MaxRows),
     total_frames : {None} \cup {Some(v) : v \in 0..MaxFrame},
     successes : {None} \cup {Some(v) : v \in 0..MaxFrame}]

\* faulty variant: the number of rows is taken for the total
normalize_can_counts_rows(rows, total_frames, successes) ==
    IF rows = <<>>
    THEN [raised |-> TRUE, files |-> {"system.csv"}]
    ELSE LET total == IF total_frames # None THEN total_frames[1] ELSE Len(rows)
             succ  == IF successes = None THEN total ELSE successes[1]
         IN  [raised |-> FALSE,
              files |-> {"system.csv", "summary.json", "requests.csv"},
              summary |-> [total |-> total, successes |-> succ, failures |-> total - succ,
                           success_rate_pct |->
                               IF total > 0 THEN Some([num |-> succ * 100, den |-> total])
                               ELSE None,
                           sample_count |-> Len(rows),
                           assumed_all_success |-> (successes = None)],
              requests |-> [k \in DOMAIN rows |-> [idx |-> rows[k], success |-> TRUE]]]

\* normalize_can: system.csv is written first; df['frame_id'].iloc[-1] raises
\* IndexError on a CSV without rows; then the summary and one request row per
\* CSV row
normalize_can(rows, total_frames, successes) ==
    IF rows = <<>>
    THEN [raised |-> TRUE, files |-> {"system.csv"}]
    ELSE LET last_frame == rows[Len(rows)]
             total == IF total_frames # None THEN total_frames[1] ELSE last_frame
             succ  == IF successes = None THEN total ELSE successes[1]
         IN  [raised |-> FALSE,
              files |-> {"system.csv", "summary.json", "requests.csv"},
              summary |-> [total |-> total, successes |-> succ, failures |-> total - succ,
                           success_rate_pct |->
                               IF total > 0 THEN Some([num |-> succ * 100, den |-> total])
                               ELSE None,
                           sample_count |-> Len(rows),
                           assumed_all_success |-> (successes = None)],
              requests |-> [k \in DOMAIN rows |-> [idx |-> rows[k], success |-> TRUE]]]

NormInit ==
    /\ n_in \in {Some(c) : c \in NormCalls}
    /\ n_out = None

ApplyNormalize ==
    /\ n_out = None
    /\ n_out' = Some(normalize_can(n_in[1].rows, n_in[1].total_frames, n_in[1].successes))
    /\ UNCHANGED n_in

-----------------------------------------------------------------------------
(* The Analyzer: src/analyze_runs.py, main.  A run directory is modelled by  *)
(* what it holds; the contents of the tables and charts are not modelled.    *)

\* a run directory: its summary.json is missing, valid JSON or not JSON, and
\* its system.csv and requests.csv exist or not
RunDirs == [summary : {"missing", "valid", "invalid"}, system : BOOLEAN, requests : BOOLEAN]

\* len(sys.argv) and the two directories named
AnaCalls == [argc : {2, 3, 4}, A : RunDirs, B : RunDirs]

\* faulty variant: a missing summary is read as an empty one
load_run_lenient(dir) ==
    IF dir.summary = "invalid" THEN "JSONDecodeError" ELSE "ok"

\* load_run: how the call ends
load_run(dir) ==
    CASE dir.summary = "missing" -> "FileNotFoundError"
      [] dir.summary = "invalid" -> "JSONDecodeError"
      [] OTHER -> "ok"

AnaInit ==
    /\ z_in \in {Some(c) : c \in AnaCalls}
    /\ z_pc = "start"
    /\ z_files = {}

\* main up to the end of load_run(pathA): the usage check, then the first
\* directory is loaded; an exception of load_run ends the program
AnaLoadA ==
    /\ z_pc = "start"
    /\ z_pc' = IF z_in[1].argc # 3 THEN "usage"
               ELSE IF load_run(z_in[1].A) = "ok" THEN "loadedA" ELSE "error"
    /\ UNCHANGED <<z_in, z_files>>

AnaLoadB ==
    /\ z_pc = "loadedA"
    /\ z_pc' = IF load_run(z_in[1].B) = "ok" THEN "loadedB" ELSE "error"
    /\ UNCHANGED <<z_in, z_files>>

\* df.to_csv("compare_summary.csv")
AnaWriteCsv ==
    /\ z_pc = "loadedB"
    /\ z_files' = z_files \cup {"compare_summary.csv"}
    /\ z_pc' = "csv"
    /\ UNCHANGED z_in

\* plot_bars: plt.savefig("compare_bars.png")
AnaPlotBars ==
    /\ z_pc = "csv"
    /\ z_files' = z_files \cup {"compare_bars.png"}
    /\ z_pc' = "bars"
    /\ UNCHANGED z_in

\* plot_timeseries: skipped when either system.csv is missing
AnaPlotTimeseries ==
    /\ z_pc = "bars"
    /\ z_files' = IF z_in[1].A.system /\ z_in[1].B.system
                  THEN z_files \cup {"compare_timeseries.png"} ELSE z_files
    /\ z_pc' = "done"
    /\ UNCHANGED z_in

-----------------------------------------------------------------------------
(* recv_exact and the reads of handle_connection, in both receivers: a      *)
(* length, then a field of that length, two times over for SECOC (message,  *)
(* tag) and three times for PQC (message, signature, public key).  The peer *)
(* sends a byte string and then closes the connection or falls silent;      *)
(* conn.recv(k) hands over any non-empty part of what is left, at most k    *)
(* bytes.                                                                   *)

\* bytes the peer sends in all
MaxStream == 7
\* the byte values drawn
ByteValues == 0..2
\* recv_exact(conn, 2) for each length
HDR_LEN == 2

RecvKinds == {"secoc", "pqc"}
\* the recv_exact calls of one handle_connection
NumFields(kind) == IF kind = "secoc" THEN 4 ELSE 6

\* int.from_bytes(raw, "big")
RECURSIVE from_bytes(_)
from_bytes(raw) ==
    IF raw = <<>> THEN 0
    ELSE from_bytes(SubSeq(raw, 1, Len(raw) - 1)) * 256 + raw[Len(raw)]

RecvInputs == [kind : RecvKinds, sent : SeqsUpTo(ByteValues, MaxStream),
               end : {"close", "silent"}]

\* faulty variant: an empty chunk ends the loop and what arrived is returned
recv_exact_short(kind, length, data, recv) ==
    IF recv.timeout
    THEN [ret |-> "raise", data |-> data,
          exc |-> IF kind = "secoc" THEN "ConnectionError" ELSE "socket.timeout"]
    ELSE IF recv.chunk = <<>>
    THEN [ret |-> "return", data |-> data, exc |-> "none"]
    ELSE LET d == data \o recv.chunk
         IN  [ret |-> IF Len(d) < length THEN "loop" ELSE "return", data |-> d,
              exc |-> "none"]

\* one turn of the while loop of recv_exact(conn, length) with `data` read so
\* far: conn.recv times out (SECOC turns socket.timeout into ConnectionError,
\* PQC lets it pass), or returns b"" (ConnectionError), or returns a chunk
\* that is added to data, after which the loop goes on or data is returned
recv_exact(kind, length, data, recv) ==
    IF recv.timeout
    THEN [ret |-> "raise", data |-> data,
          exc |-> IF kind = "secoc" THEN "ConnectionError" ELSE "socket.timeout"]
    ELSE IF recv.chunk = <<>>
    THEN [ret |-> "raise", data |-> data, exc |-> "ConnectionError"]
    ELSE LET d == data \o recv.chunk
         IN  [ret |-> IF Len(d) < length THEN "loop" ELSE "return", data |-> d,
              exc |-> "none"]

\* the length the next recv_exact call of handle_connection asks for
NextWant(fields) ==
    IF Len(fields) % 2 = 0 THEN HDR_LEN ELSE from_bytes(fields[Len(fields)])

\* handle_connection after a field was returned: calls for zero bytes return
\* b"" without a recv; the reads end when the last field is there
RECURSIVE Advance(_, _)
Advance(kind, fields) ==
    IF Len(fields) = NumFields(kind)
    THEN [pc |-> "parsed", want |-> 0, fields |-> fields]
    ELSE IF NextWant(fields) = 0
    THEN Advance(kind, Append(fields, <<>>))
    ELSE [pc |-> "recv", want |-> NextWant(fields), fields |-> fields]

\* the bytes not yet handed over
Unread == SubSeq(x_in.sent, x_rd.pos + 1, Len(x_in.sent))

\* handle_connection at its first conn.recv
RecvInit ==
    /\ x_in \in RecvInputs
    /\ x_rd = [pc |-> "recv", pos |-> 0, want |-> HDR_LEN, data |-> <<>>, fields |-> <<>>,
               exc |-> "none", split |-> FALSE]

\* the pending recv_exact call after conn.recv ended as `recv`, k bytes
\* having left the stream; an exception ends handle_connection in its except
\* branch
AfterRecv(recv, k) ==
    LET r == recv_exact(x_in.kind, x_rd.want, x_rd.data, recv)
    IN  /\ x_rd' =
              IF r.ret = "raise"
              THEN [x_rd EXCEPT !.pc = "aborted", !.exc = r.exc]
              ELSE IF r.ret = "loop"
              THEN [x_rd EXCEPT !.pos = @ + k, !.data = r.data]
              ELSE LET a == Advance(x_in.kind, Append(x_rd.fields, r.data))
                   IN  [x_rd EXCEPT !.pc = a.pc, !.pos = @ + k, !.want = a.want,
                                    !.data = <<>>, !.fields = a.fields,
                                    !.split = @ \/ x_rd.data # <<>>]
        /\ UNCHANGED x_in

\* conn.recv(length - len(data)) returns some of the bytes that are left
RecvChunk ==
    /\ x_rd.pc = "recv"
    /\ \E k \in 1..Min(x_rd.want - Len(x_rd.data), Len(Unread)) :
          AfterRecv([timeout |-> FALSE, chunk |-> SubSeq(Unread, 1, k)], k)

\* the peer has closed the connection: conn.recv returns b""
RecvClosed ==
    /\ x_rd.pc = "recv"
    /\ Unread = <<>>
    /\ x_in.end = "close"
    /\ AfterRecv([timeout |-> FALSE, chunk |-> <<>>], 0)

\* the peer sends nothing for RECV_TIMEOUT: conn.recv raises socket.timeout
RecvTimeout ==
    /\ x_rd.pc = "recv"
    /\ Unread = <<>>
    /\ x_in.end = "silent"
    /\ AfterRecv([timeout |-> TRUE, chunk |-> <<>>], 0)

-----------------------------------------------------------------------------
(* Specifications *)

\* the load generator run by run_scenario
IdleLoad ==
    /\ LoadInit
    /\ l_args = [host |-> "localhost", allow_remote |-> FALSE, mode |-> "churn",
                 concurrency |-> 0, total |-> 0, target |-> "echo"]
\* summarize not called
IdleSum == u_in = <<>> /\ u_out = None
\* normalize_can not called
IdleNorm == n_in = None /\ n_out = None
\* the Analyzer not started
IdleAna == z_in = None /\ z_pc = "start" /\ z_files = {}
\* the SECOC receiver's main not started
IdleLoop == s_pc = "off" /\ s_conn = None
\* no connection being read
IdleRecv ==
    /\ x_in = [kind |-> "secoc", sent |-> <<>>, end |-> "close"]
    /\ x_rd = [pc |-> "off", pos |-> 0, want |-> 0, data |-> <<>>, fields |-> <<>>,
               exc |-> "none", split |-> FALSE]
IdleTools == IdleLoad /\ IdleSum /\ IdleNorm /\ IdleAna /\ IdleLoop /\ IdleRecv

\* everything at rest, for the parts a specification does not run
IdleSecoc == SecocInit
IdleReplay == ReplayInit
IdleAuth == a_in = [env |-> AbortedEnvelope, cpu |-> 0, draw |-> 0]
IdleProb ==
    /\ c_in = [a |-> 0, b |-> 0, raises |-> FALSE]
    /\ c_out = [done |-> FALSE, pa |-> 0, pb |-> 0, cpu |-> 0]
IdleFresh ==
    /\ f_in = [now |-> FreshNow0, ts |-> FreshNow0]
    /\ f_out = [done |-> FALSE, secoc |-> "none", pqc |-> "none"]
IdlePqc ==
    /\ PqcStart
    /\ p_traffic = [a \in Conns |-> Delivery(PqcAborted, 0, 0)]

\* the SECOC receiver serving connections
InitSecoc == SecocInit /\ IdleReplay /\ IdleAuth /\ IdleProb /\ IdleFresh /\ IdlePqc /\ IdleTools
NextSecoc ==
    \/ SecocServe /\ UNCHANGED <<replayVars, authVars, probVars, freshVars, pqcVars, toolVars>>
    \/ SecocTick /\ UNCHANGED <<replayVars, authVars, probVars, freshVars, pqcVars, toolVars>>
SpecSecoc == InitSecoc /\ [][NextSecoc]_vars

\* the SECOC receiver handling one connection that delivers a drawn envelope
InitAuth == SecocInit /\ IdleReplay /\ AuthInit /\ IdleProb /\ IdleFresh /\ IdlePqc /\ IdleTools
NextAuth == AuthDeliver /\ UNCHANGED <<replayVars, authVars, probVars, freshVars, pqcVars, toolVars>>
SpecAuth == InitAuth /\ [][NextAuth]_vars

\* record_replay under any sequence of calls
InitReplay == SecocInit /\ ReplayInit /\ IdleAuth /\ IdleProb /\ IdleFresh /\ IdlePqc /\ IdleTools
NextReplay == CallRecordReplay /\ UNCHANGED <<authVars, probVars, freshVars, pqcVars, toolVars>>
SpecReplay == InitReplay /\ [][NextReplay]_vars

\* compute_drop_prob on drawn readings
InitProb == IdleSecoc /\ IdleReplay /\ IdleAuth /\ ProbInit /\ IdleFresh /\ IdlePqc /\ IdleTools
NextProb == ApplyDropProb /\ UNCHANGED <<secocVars, replayVars, authVars, freshVars, pqcVars, toolVars>>
SpecProb == InitProb /\ [][NextProb]_vars

\* the freshness checks on drawn clocks and timestamps
InitFresh == IdleSecoc /\ IdleReplay /\ IdleAuth /\ IdleProb /\ FreshInit /\ IdlePqc /\ IdleTools
NextFresh == ApplyFreshness /\ UNCHANGED <<secocVars, replayVars, authVars, probVars, pqcVars, toolVars>>
SpecFresh == InitFresh /\ [][NextFresh]_vars

\* the PQC receiver: main, its connection handlers and its workers
otherVars == <<secocVars, replayVars, authVars, probVars, freshVars, toolVars>>
InitPqc == IdleSecoc /\ IdleReplay /\ IdleAuth /\ IdleProb /\ IdleFresh /\ PqcInit /\ IdleTools
NextPqc ==
    \/ Accept /\ UNCHANGED otherVars
    \/ Interrupt /\ UNCHANGED otherVars
    \/ PushSentinel /\ UNCHANGED otherVars
    \/ Join /\ UNCHANGED otherVars
    \/ \E a \in Conns : handle_connection_pqc(a) /\ UNCHANGED otherVars
    \/ \E w \in Workers : WorkerGet(w) /\ UNCHANGED otherVars
    \/ \E w \in Workers : WorkerCheck(w) /\ UNCHANGED otherVars
    \/ \E w \in Workers : WorkerAdd(w) /\ UNCHANGED otherVars
    \/ \E w \in Workers : WorkerLen(w) /\ UNCHANGED otherVars
    \/ \E w \in Workers : WorkerPop(w) /\ UNCHANGED otherVars
    \/ \E w \in Workers : WorkerVerify(w) /\ UNCHANGED otherVars
    \/ \E w \in Workers : WorkerTaskDone(w) /\ UNCHANGED otherVars
SpecPqc == InitPqc /\ [][NextPqc]_vars

\* run_scenario with the load generator, on drawn command lines and targets
receiverVars == <<secocVars, replayVars, authVars, probVars, freshVars, pqcVars>>
nonLoadVars == <<receiverVars, sumVars, normVars, anaVars, loopVars, recvVars>>
IdleReceivers == IdleSecoc /\ IdleReplay /\ IdleAuth /\ IdleProb /\ IdleFresh /\ IdlePqc
InitLoad ==
    /\ IdleReceivers /\ IdleSum /\ IdleNorm /\ IdleAna /\ IdleLoop /\ IdleRecv
    /\ LoadInit /\ l_args \in LoadArgs
NextLoad ==
    \/ ScenarioStart /\ UNCHANGED nonLoadVars
    \/ \E i \in TaskIds : Acquire(i) /\ UNCHANGED nonLoadVars
    \/ \E i \in TaskIds : Connect(i) /\ UNCHANGED nonLoadVars
    \/ \E i \in TaskIds : Drain(i) /\ UNCHANGED nonLoadVars
    \/ \E i \in TaskIds : Read(i) /\ UNCHANGED nonLoadVars
    \/ \E i \in TaskIds : Close(i) /\ UNCHANGED nonLoadVars
    \/ GatherDone /\ UNCHANGED nonLoadVars
    \/ NextBatch /\ UNCHANGED nonLoadVars
    \/ StopLoad /\ UNCHANGED nonLoadVars
    \/ WriteOut /\ UNCHANGED nonLoadVars
    \/ Sample /\ UNCHANGED nonLoadVars
SpecLoad == InitLoad /\ [][NextLoad]_vars

\* the same under the event loop's scheduling: a task that is ready to run is
\* run, and a timeout bounds every await of a connection attempt
TaskStep(i) == (Acquire(i) \/ Connect(i) \/ Drain(i) \/ Read(i) \/ Close(i))
                 /\ UNCHANGED nonLoadVars
ScenarioStep == (ScenarioStart \/ GatherDone \/ NextBatch \/ StopLoad \/ WriteOut)
                  /\ UNCHANGED nonLoadVars
SpecLoadFair ==
    /\ SpecLoad
    /\ \A i \in TaskIds : WF_vars(TaskStep(i))
    /\ WF_vars(ScenarioStep)

\* the load generator in its three modes, LoadGen.stop() being called at any
\* await of the run
InitLoadStop ==
    /\ IdleReceivers /\ IdleSum /\ IdleNorm /\ IdleAna /\ IdleLoop /\ IdleRecv
    /\ LoadInit /\ l_args \in StopArgs
NextLoadStop ==
    \/ NextLoad
    \/ OpenNext /\ UNCHANGED nonLoadVars
    \/ \E i \in TaskIds : SendWrite(i) /\ UNCHANGED nonLoadVars
    \/ \E i \in TaskIds : SendDrain(i) /\ UNCHANGED nonLoadVars
    \/ \E i \in TaskIds : SendRead(i) /\ UNCHANGED nonLoadVars
    \/ RoundDone /\ UNCHANGED nonLoadVars
    \/ NextRound /\ UNCHANGED nonLoadVars
    \/ StopRequested /\ UNCHANGED nonLoadVars
SpecLoadStop == InitLoadStop /\ [][NextLoadStop]_vars

\* the same under the event loop's scheduling; the connection attempts of
\* run_long end by the system's own timeout, and a drain of one short line
\* stays below the transport's high-water mark
SendStep(i) == (SendWrite(i) \/ SendDrain(i) \/ SendRead(i)) /\ UNCHANGED nonLoadVars
LongStep == (OpenNext \/ RoundDone \/ NextRound) /\ UNCHANGED nonLoadVars
SpecLoadStopFair ==
    /\ SpecLoadStop
    /\ \A i \in TaskIds : WF_vars(TaskStep(i))
    /\ \A i \in TaskIds : WF_vars(SendStep(i))
    /\ WF_vars(ScenarioStep)
    /\ WF_vars(LongStep)

\* the reads of one connection, for every byte string and every chunking
InitRecv == IdleReceivers /\ IdleLoad /\ IdleSum /\ IdleNorm /\ IdleAna /\ IdleLoop /\ RecvInit
NextRecv ==
    \/ RecvChunk /\ UNCHANGED <<receiverVars, loadVars, sumVars, normVars, anaVars, loopVars>>
    \/ RecvClosed /\ UNCHANGED <<receiverVars, loadVars, sumVars, normVars, anaVars, loopVars>>
    \/ RecvTimeout /\ UNCHANGED <<receiverVars, loadVars, sumVars, normVars, anaVars, loopVars>>
SpecRecv == InitRecv /\ [][NextRecv]_vars

\* summarize on drawn lists of Request Results
InitSum == IdleReceivers /\ IdleLoad /\ SumInit /\ IdleNorm /\ IdleAna /\ IdleLoop /\ IdleRecv
NextSum == ApplySummarize /\ UNCHANGED <<receiverVars, loadVars, normVars, anaVars, loopVars, recvVars>>
SpecSum == InitSum /\ [][NextSum]_vars

\* normalize_can on drawn CSVs and overrides
InitNorm == IdleReceivers /\ IdleLoad /\ IdleSum /\ NormInit /\ IdleAna /\ IdleLoop /\ IdleRecv
NextNorm == ApplyNormalize /\ UNCHANGED <<receiverVars, loadVars, sumVars, anaVars, loopVars, recvVars>>
SpecNorm == InitNorm /\ [][NextNorm]_vars

\* the Analyzer on drawn command lines and run directories
InitAna == IdleReceivers /\ IdleLoad /\ IdleSum /\ IdleNorm /\ AnaInit /\ IdleLoop /\ IdleRecv
NextAna ==
    \/ AnaLoadA /\ UNCHANGED <<receiverVars, loadVars, sumVars, normVars, loopVars, recvVars>>
    \/ AnaLoadB /\ UNCHANGED <<receiverVars, loadVars, sumVars, normVars, loopVars, recvVars>>
    \/ AnaWriteCsv /\ UNCHANGED <<receiverVars, loadVars, sumVars, normVars, loopVars, recvVars>>
    \/ AnaPlotBars /\ UNCHANGED <<receiverVars, loadVars, sumVars, normVars, loopVars, recvVars>>
    \/ AnaPlotTimeseries /\ UNCHANGED <<receiverVars, loadVars, sumVars, normVars, loopVars, recvVars>>
SpecAna == InitAna /\ [][NextAna]_vars

\* the PQC receiver's handlers and workers on NUM_WORKERS + 1 connections
InitPool == IdleSecoc /\ IdleReplay /\ IdleAuth /\ IdleProb /\ IdleFresh /\ PoolInit /\ IdleTools
NextPool ==
    \/ \E a \in PoolConns : handle_connection_pqc(a) /\ UNCHANGED otherVars
    \/ \E w \in Workers : WorkerGet(w) /\ UNCHANGED otherVars
    \/ \E w \in Workers : WorkerCheck(w) /\ UNCHANGED otherVars
    \/ \E w \in Workers : WorkerAdd(w) /\ UNCHANGED otherVars
    \/ \E w \in Workers : WorkerLen(w) /\ UNCHANGED otherVars
    \/ \E w \in Workers : WorkerPop(w) /\ UNCHANGED otherVars
    \/ \E w \in Workers : WorkerVerify(w) /\ UNCHANGED otherVars
    \/ \E w \in Workers : WorkerTaskDone(w) /\ UNCHANGED otherVars
SpecPool == InitPool /\ [][NextPool]_vars

\* the SECOC receiver's accept loop; the clock stands still and the ages of
\* the messages come from their freshness fields
InitSecocLoop ==
    /\ SecocInit /\ IdleReplay /\ IdleAuth /\ IdleProb /\ IdleFresh /\ IdlePqc
    /\ IdleLoad /\ IdleSum /\ IdleNorm /\ IdleAna /\ LoopInit /\ IdleRecv
LoopStep ==
    \/ SecocAccept /\ UNCHANGED <<replayVars, authVars, probVars, freshVars, pqcVars, loadVars, sumVars, normVars, anaVars, recvVars>>
    \/ SecocHandle /\ UNCHANGED <<replayVars, authVars, probVars, freshVars, pqcVars, loadVars, sumVars, normVars, anaVars, recvVars>>
    \/ SecocInterrupt /\ UNCHANGED <<replayVars, authVars, probVars, freshVars, pqcVars, loadVars, sumVars, normVars, anaVars, recvVars>>
NextSecocLoop == LoopStep
SpecSecocLoop == InitSecocLoop /\ [][NextSecocLoop]_vars

\* either receiver running: the SECOC loop, or the PQC receiver under the
\* same envelope repeated, the malformed ones, and load at the limit.  A
\* connection being handled is handled to its end (every recv has a
\* timeout, the rest is straight-line code); nothing is assumed about
\* clients connecting or about interrupts.
AvailTraffic ==
    { [a \in Conns |-> Delivery(PqcValid(0), 0, 50)] }
    \cup { [a \in Conns |-> Delivery(Cyclic(PqcMixed, a + k), 0, 50)] : k \in {0, 2, 4} }
    \cup { [a \in Conns |-> Delivery(PqcValid(a), Cyclic(PqcLoad, a).cpu,
                                     Cyclic(PqcLoad, a).draw)] }
InitAvail ==
    \/ InitSecocLoop
    \/ /\ IdleSecoc /\ IdleReplay /\ IdleAuth /\ IdleProb /\ IdleFresh /\ IdleTools
       /\ PqcStart /\ p_traffic \in AvailTraffic
NextAvail ==
    \/ s_pc # "off" /\ LoopStep
    \/ s_pc = "off" /\ NextPqc
SpecAvail ==
    /\ InitAvail /\ [][NextAvail]_vars
    /\ WF_vars(SecocHandle /\ UNCHANGED <<replayVars, authVars, probVars, freshVars, pqcVars, loadVars, sumVars, normVars, anaVars, recvVars>>)

-----------------------------------------------------------------------------
(* Properties of the SECOC receiver *)

\* ts lies within the receiver's window at the receiver time now
InWindow(now, ts) == now - ts <= 5 /\ ts - now <= 5

\* a step of SpecSecoc that delivers, a second time in a row, an envelope the
\* sender built, fresh at both deliveries and not cached before the first
C1_DeliveredTwice ==
    /\ s_now' = s_now
    /\ s_last.outcome # "none"
    /\ s_last'.env = s_last.env
    /\ s_last.env \in SenderEnvelopes
    /\ ~s_last.cached
    /\ InWindow(s_last.now, s_last.env.msg.ts)
    /\ InWindow(s_last'.now, s_last.env.msg.ts)

\* C1 as stated: when the identical valid envelope is delivered twice,
\* exactly one of the two deliveries is accepted and the other is dropped,
\* whatever the CPU reading and the draw of the overload gate
C1_ExactlyOneAccepted ==
    [][C1_DeliveredTwice =>
        ((s_last.outcome = "done") # (s_last'.outcome = "done"))]_vars

\* C1 amended: the second delivery is always dropped as a replay, and the
\* first is accepted exactly when the draw of the overload gate is not below
\* min(0.85, cpu/120), and is an overload drop otherwise; so at most one of
\* the two is accepted, and exactly one when the gate does not drop
C1_AtMostOneAccepted ==
    [][C1_DeliveredTwice =>
        /\ s_last'.outcome = "replay"
        /\ s_last.outcome \in {"done", "overload"}
        /\ (s_last.outcome = "overload") <=>
              (s_last.draw < Min(MAX_DROP_PROB * CPU_SCALE, 10 * s_last.cpu))]_vars

\* a sender-built, fresh envelope has just been dropped as a replay
C1_Witness ==
    /\ s_last.outcome = "replay"
    /\ s_last.cached
    /\ s_last.env = BaseEnvelope
    /\ InWindow(s_last.now, s_last.env.msg.ts)

\* C3: after any sequence of record_replay calls the cache holds at most
\* REPLAY_CACHE_SIZE fingerprints, they are the last REPLAY_CACHE_SIZE
\* fingerprints inserted in insertion order (so the one evicted is the oldest
\* present), and a call reports a replay exactly when its fingerprint is
\* among them
C3_FifoBounded ==
    /\ Len(REPLAY_CACHE) <= REPLAY_CACHE_SIZE
    /\ Cardinality(REPLAY_SET) <= REPLAY_CACHE_SIZE
    /\ REPLAY_CACHE = Suffix(r_recorded, REPLAY_CACHE_SIZE)
    /\ REPLAY_SET = Range(Suffix(r_recorded, REPLAY_CACHE_SIZE))
    /\ r_last.calls > 0 => (r_last.ret = ~r_last.recent)

\* an insertion into a full cache has evicted the oldest fingerprint, and a
\* fingerprint evicted earlier has been inserted again
C3_Witness ==
    /\ Len(r_recorded) > REPLAY_CACHE_SIZE + 1
    /\ r_last.ret
    /\ r_last.arg = r_recorded[1]
    /\ Len(REPLAY_CACHE) = REPLAY_CACHE_SIZE

\* C5: the SECOC check passes now - ts = 5 and ts - now = 5, rejects
\* now - ts = 6 as stale and ts - now = 6 as future; the PQC check passes
\* |now - ts| = 30 and rejects |now - ts| = 31, past or future
C5_FreshnessBoundaries ==
    f_out.done =>
        /\ (f_in.now - f_in.ts = 5 => f_out.secoc = "ok")
        /\ (f_in.ts - f_in.now = 5 => f_out.secoc = "ok")
        /\ (f_in.now - f_in.ts = 6 => f_out.secoc = "stale")
        /\ (f_in.ts - f_in.now = 6 => f_out.secoc = "future")
        /\ (f_in.now - f_in.ts = 30 => f_out.pqc = "ok")
        /\ (f_in.ts - f_in.now = 30 => f_out.pqc = "ok")
        /\ (f_in.now - f_in.ts = 31 => f_out.pqc = "drop")
        /\ (f_in.ts - f_in.now = 31 => f_out.pqc = "drop")

\* the checks have run on a timestamp 5 seconds old, which the SECOC check
\* passes
C5_Witness ==
    /\ f_out.done
    /\ f_in.now - f_in.ts = 5
    /\ f_out.secoc = "ok"
    /\ f_out.pqc = "ok"

\* C6: the drop probability is non-decreasing in the CPU percentage, equals
\* cpu/120 below the cap, never exceeds 0.85 and equals 0.85 for every CPU
\* percentage at or above 102 (readings in tenths, probabilities over ProbDen)
C6_DropProbMonotoneCapped ==
    (c_out.done /\ ~c_in.raises) =>
        /\ (c_in.a <= c_in.b => c_out.pa <= c_out.pb)
        /\ (c_in.a < 1020 => c_out.pa * 10 * 120 = c_in.a * ProbDen)
        /\ c_out.pa * 100 <= 85 * ProbDen
        /\ (c_in.a >= 1020 => c_out.pa * 100 = 85 * ProbDen)

\* the probability has been computed for a reading below the cap and for a
\* reading of 102% or more
C6_Witness ==
    /\ c_out.done
    /\ ~c_in.raises
    /\ c_in.a = 600
    /\ c_in.b >= 1020
    /\ c_out.pa < c_out.pb

\* C8: an envelope the sender tagged with the shared secret passes the HMAC
\* check (and, when fresh, a receiver that has seen nothing gets past every
\* rejection but the overload gate), and an envelope that differs from a
\* sender-built one in one bit of its record, freshness or tag is rejected
\* and leaves nothing in the replay cache
C8_Authentication ==
    s_last.outcome # "none" =>
        /\ s_last.env \in SenderEnvelopes =>
              /\ s_last.outcome # "hmac_mismatch"
              /\ InWindow(s_last.now, s_last.env.msg.ts) =>
                    s_last.outcome \in {"done", "overload"}
        /\ s_last.env \in UNION {OneBitChanged(g) : g \in SenderEnvelopes} =>
              /\ s_last.outcome \in {"stale", "future", "hmac_mismatch"}
              /\ REPLAY_SET = {}

\* the base envelope with one bit of its freshness changed, still inside the
\* window, has been rejected by the HMAC check
C8_Witness ==
    /\ s_last.env = FlipTs(BaseEnvelope, 0)
    /\ InWindow(s_last.now, s_last.env.msg.ts)
    /\ s_last.outcome = "hmac_mismatch"

-----------------------------------------------------------------------------
(* Properties of the PQC receiver *)

\* handle_message has ended for the message of connection a
Processed(a) == p_result[a] # "none"

\* the run of handle_message for connection a passed the replay lookup and
\* went on to the signature verification
ReachedVerification(a) == p_result[a] \in {"verified", "sig_failed", "verify_error"}

\* connections a and b delivered the same sender-built, fresh envelope, both
\* messages were enqueued and handle_message has ended for both
C2_SameEnvelopeTwice(a, b) ==
    /\ a # b
    /\ p_traffic[a].env = p_traffic[b].env
    /\ Verify(p_traffic[a].env.msg, p_traffic[a].env.sig, p_traffic[a].env.pk) = "valid"
    /\ Abs(PqcNow - p_traffic[a].env.msg.ts) <= PQC_FRESH_WINDOW
    /\ {a, b} \subseteq p_everQueued
    /\ Processed(a) /\ Processed(b)

\* C2: when the same valid, fresh envelope has been enqueued twice, exactly
\* one of the two runs of handle_message passes the replay check and reaches
\* the signature verification, and the other is dropped as a replay, under
\* every interleaving of the workers
C2_ExactlyOnePassesReplay ==
    \A a, b \in Conns :
        C2_SameEnvelopeTwice(a, b) =>
            \/ ReachedVerification(a) /\ p_result[b] = "replay"
            \/ ReachedVerification(b) /\ p_result[a] = "replay"

\* the workers that have added their fingerprint and have not yet finished
\* the eviction step that follows
MidEviction == {w \in Workers : w_pc[w] \in {"len", "pop"}}

\* C4: SEEN_HASHES holds at most MAX_HASHES entries whenever no run of
\* handle_message is between its add and its eviction step, at any instant
\* at most MAX_HASHES plus the number of runs that are, and so at most
\* MAX_HASHES plus the number of workers
C4_SeenHashesBounded ==
    /\ MidEviction = {} => Cardinality(SEEN_HASHES) <= MAX_HASHES
    /\ Cardinality(SEEN_HASHES) <= MAX_HASHES + Cardinality(MidEviction)
    /\ Cardinality(SEEN_HASHES) <= MAX_HASHES + NUM_WORKERS

\* the set is over capacity while a worker is about to evict
C4_Witness ==
    /\ Cardinality(SEEN_HASHES) = MAX_HASHES + 1
    /\ \E w \in Workers : w_pc[w] = "pop"

\* the handler of connection a read the whole envelope and has returned
AfterPreAdmission(a) == h_pc[a] \in {"drop", "queue_full", "queued"}

\* the message of connection a is nowhere in the worker pipeline
NeverQueued(a) ==
    /\ a \notin p_everQueued
    /\ a \notin Range(MSG_QUEUE)
    /\ \A w \in Workers : w_item[w] # a
    /\ ~Processed(a)

\* C7 as stated: a fully read envelope observed with CPU at or above 85% is
\* always dropped, whatever the draw, and a message dropped at pre-admission
\* is never put on the work queue
C7_AtOrAbove85Dropped ==
    \A a \in Conns :
        /\ (AfterPreAdmission(a) /\ p_traffic[a].cpu >= CPU_LIMIT) => h_pc[a] = "drop"
        /\ h_pc[a] = "drop" => NeverQueued(a)

\* C7 amended: a fully read envelope observed with CPU above 85% is always
\* dropped, whatever the draw; at exactly 85.0% it is dropped only when the
\* draw is below 0.1; a message dropped at pre-admission is never put on the
\* work queue
C7_Above85Dropped ==
    \A a \in Conns :
        /\ (AfterPreAdmission(a) /\ p_traffic[a].cpu > CPU_LIMIT) => h_pc[a] = "drop"
        /\ (AfterPreAdmission(a) /\ p_traffic[a].cpu = CPU_LIMIT) =>
              (h_pc[a] = "drop" <=> p_traffic[a].draw < DROP_PROB_BASE)
        /\ h_pc[a] = "drop" => NeverQueued(a)

\* an envelope read with CPU above 85% and a draw of 0.5 has been dropped
\* while the queue had room
C7_Witness ==
    \E a \in Conns :
        /\ h_pc[a] = "drop"
        /\ p_traffic[a].cpu > CPU_LIMIT
        /\ p_traffic[a].draw >= DROP_PROB_BASE
        /\ Len(MSG_QUEUE) < QUEUE_MAXSIZE

\* C9: the work queue never holds more than QUEUE_MAXSIZE items; a handler
\* that is running can always take its step, whatever the queue holds and
\* the workers do, so it never blocks; and a handler that found the queue
\* full has returned without its message being queued
C9_QueueBoundedNoBlocking ==
    /\ Len(MSG_QUEUE) <= QUEUE_MAXSIZE
    /\ \A a \in Conns :
        /\ (h_pc[a] = "reading" /\ m_pc # "exit") => ENABLED handle_connection_pqc(a)
        /\ h_pc[a] = "queue_full" => NeverQueued(a)

\* a handler has dropped its message on a full queue while no worker has
\* taken anything
C9_Witness ==
    \E a \in Conns :
        /\ h_pc[a] = "queue_full"
        /\ Len(MSG_QUEUE) = QUEUE_MAXSIZE
        /\ \A w \in Workers : w_pc[w] = "get"

\* C10: once main has left the accept loop, NUM_WORKERS sentinels are
\* pushed before the join, and when the workers have exited every message
\* that was enqueued has been handed to a worker, also when handlers started
\* before the interrupt enqueue during the shutdown
C10_ShutdownDrains ==
    /\ m_pc \in {"join", "exit"} => m_pushed = NUM_WORKERS
    /\ (\A w \in Workers : w_pc[w] = "exited") =>
          /\ \A i \in DOMAIN MSG_QUEUE : MSG_QUEUE[i] = NoneItem
          /\ unfinished_tasks = 0

-----------------------------------------------------------------------------
(* Properties of the load generator *)

\* the attempts between acquiring and releasing a slot
InFlight == {i \in TaskIds : l_task[i].pc \in {"connecting", "draining", "reading", "closing"}}

\* LoadGen has been constructed
LoadGenBuilt == l_sampler.created

\* C11: in churn and steady mode the attempts between acquiring and
\* releasing a slot never outnumber `concurrency`, and free slots plus
\* in-flight attempts always equal `concurrency`, whether attempts end in
\* success or in an exception
C11_SlotsConserved ==
    LoadGenBuilt =>
        /\ Cardinality(InFlight) <= l_args.concurrency
        /\ l_sem >= 0
        /\ l_sem + Cardinality(InFlight) = l_args.concurrency

\* every slot is taken and an attempt waits, after another attempt ended in
\* an exception
C11_Witness ==
    /\ l_args.concurrency >= 1
    /\ Cardinality(InFlight) = l_args.concurrency
    /\ \E i \in TaskIds : l_task[i].pc = "waiting"
    /\ \E k \in DOMAIN results : ~results[k].success

\* the positions in LoadGen.results of the results carrying index i
ResultsOf(i) == {k \in DOMAIN results : results[k].idx = i}

\* a churn run on a target host the guard lets through
ChurnRun ==
    /\ l_args.mode = "churn"
    /\ l_args.host \in {"127.0.0.1", "localhost"} \/ l_args.allow_remote
ChurnEnded == l_pc \in {"ran", "stopping", "returned"}

\* C12: with concurrency >= 1, run_churn terminates for every total N >= 0,
\* and it ends with exactly N results, one for each index 0..N-1; all are
\* successes against an echoing target, and all are failures with non-empty
\* error text against a refusing target
C12_ChurnAccounting ==
    /\ (ChurnRun /\ l_args.concurrency >= 1) => <>ChurnEnded
    /\ [](ChurnRun /\ l_args.concurrency >= 1 /\ ChurnEnded =>
            /\ Len(results) = l_args.total
            /\ \A i \in 0..(l_args.total - 1) : Cardinality(ResultsOf(i)) = 1
            /\ l_args.target = "echo" =>
                  \A k \in DOMAIN results : results[k].success
            /\ l_args.target = "refuse" =>
                  \A k \in DOMAIN results :
                      /\ ~results[k].success
                      /\ results[k].err \notin {"", ErrNone})

\* a churn run of MaxTotal attempts through one slot against a refusing
\* target has ended
C12_Witness ==
    /\ ChurnRun /\ ChurnEnded
    /\ l_args.concurrency = 1
    /\ l_args.total = MaxTotal
    /\ l_args.target = "refuse"
    /\ Len(results) = MaxTotal

\* C13: with a host that is neither 127.0.0.1 nor localhost and no override,
\* run_scenario returns 1 without having created the sampler, started an
\* attempt or written anything; with a local host or the override, when it
\* returns it has run the load, written its output and returns 0
C13_RemoteGuard ==
    IF l_args.host \notin {"127.0.0.1", "localhost"} /\ ~l_args.allow_remote
    THEN /\ l_pc \in {"start", "returned"}
         /\ l_pc = "returned" <=> l_exit = 1
         /\ l_exit \in {-1, 1}
         /\ ~l_sampler.created /\ ~l_sampler.started
         /\ \A i \in TaskIds : l_task[i].pc = "absent"
         /\ results = <<>>
         /\ l_files = {}
    ELSE /\ l_exit \in {-1, 0}
         /\ l_pc = "returned" <=> l_exit = 0
         /\ l_pc = "returned" =>
               /\ l_sampler.created
               /\ \A i \in TaskIds : l_task[i].pc \in {"absent", "done"}
               /\ l_args.mode = "churn" => Len(results) = l_args.total
               /\ {"outdir", "requests.csv", "summary.json"} \subseteq l_files
         /\ l_files # {} => l_pc = "returned"

\* run_scenario has turned a remote target down
C13_Witness ==
    /\ l_args.host \notin {"127.0.0.1", "localhost"}
    /\ ~l_args.allow_remote
    /\ l_pc = "returned"
    /\ l_exit = 1

\* C20: an attempt has recorded exactly one result when it has ended and
\* none before; a read that timed out gives success = true with response
\* length 0; an exception in connect, write or read gives success = false
\* with the exception's text and response length 0; and in both cases the
\* slot has been released
C20_OneResultPerAttempt ==
    \A i \in TaskIds :
        /\ Cardinality(ResultsOf(i)) = IF l_task[i].pc = "done" THEN 1 ELSE 0
        /\ l_task[i].pc = "done" =>
              \A k \in ResultsOf(i) :
                  /\ l_task[i].last = "timeout" =>
                        results[k] = [idx |-> i, success |-> TRUE, resp_len |-> 0,
                                      err |-> ErrNone]
                  /\ l_task[i].last \in {"refused", "connect_timeout", "reset"} =>
                        /\ ~results[k].success
                        /\ results[k].resp_len = 0
                        /\ results[k].err = ErrText(l_task[i].last)
                  /\ i \notin InFlight
                  /\ l_sem + Cardinality(InFlight) = l_args.concurrency

\* one attempt has ended after its read timed out and another after an
\* exception
C20_Witness ==
    \E i, j \in TaskIds :
        /\ l_task[i].pc = "done" /\ l_task[i].last = "timeout"
        /\ l_task[j].pc = "done" /\ l_task[j].last = "reset"

-----------------------------------------------------------------------------
(* Properties of the reporting tools *)

\* C14: summarize returns total = the number of results, successes = the
\* number with success true and failures = total - successes; when no result
\* is successful the four latency fields are None, not zero, and an
\* all-failure non-empty list gives a success rate of 0%
C14_SummaryCounts ==
    u_out # None =>
        LET s == u_out[1]
            successful == {k \in DOMAIN u_in : u_in[k].success}
        IN  /\ s.total = Len(u_in)
            /\ s.successes = Cardinality(successful)
            /\ s.failures = s.total - s.successes
            /\ successful = {} =>
                  /\ s.lat_p50_ms = None /\ s.lat_p90_ms = None
                  /\ s.lat_p99_ms = None /\ s.lat_mean_ms = None
            /\ (successful = {} /\ u_in # <<>>) =>
                  /\ s.success_rate_pct # None
                  /\ s.success_rate_pct[1].num = 0

\* a list of MaxResults failures has been summarized
C14_Witness ==
    /\ u_out # None
    /\ Len(u_in) = MaxResults
    /\ \A k \in DOMAIN u_in : ~u_in[k].success

\* normalize_can has returned
Normalized == n_out # None /\ ~n_out[1].raised

SummaryMissing ==
    /\ z_in # None
    /\ z_in[1].argc = 3
    /\ z_in[1].A.summary = "missing" \/ z_in[1].B.summary = "missing"

\* C16: when either run directory lacks its summary file the Analyzer ends
\* with an error and writes no artifact, neither the comparison CSV nor a
\* chart, also when only the second directory lacks its summary
C16_AnalyzerFatal ==
    SummaryMissing =>
        /\ z_files = {}
        /\ z_pc \in {"start", "loadedA", "error"}
        /\ z_pc = "loadedA" => z_in[1].B.summary = "missing"
        /\ ENABLED (AnaLoadA \/ AnaLoadB) \/ z_pc = "error"

\* the first directory was loaded and the second has no summary: the
\* Analyzer has ended with the error
C16_Witness ==
    /\ SummaryMissing
    /\ z_in[1].A.summary = "valid"
    /\ z_in[1].A.system /\ z_in[1].B.system
    /\ z_pc = "error"
    /\ z_files = {}

-----------------------------------------------------------------------------
(* Properties of both receivers *)

\* C18: neither receiver accepts a message that is not exactly 56 bytes: it
\* is never reported as a valid (SECOC) or verified (PQC) message
C18_OnlyFullLengthAccepted ==
    /\ s_last.outcome = "done" => s_last.env.msg.len = MIN_MSG_LEN
    /\ \A a \in Conns :
          p_result[a] = "verified" => p_traffic[a].env.msg.len = MIN_MSG_LEN

\* the overload gate would drop under the CPU reading and the draw the last
\* connection was handled with
GateDrops == s_last.draw < Min(MAX_DROP_PROB * CPU_SCALE, 10 * s_last.cpu)

\* the checks before the overload gate, applied to the last connection
LengthOk == s_last.env.msg.len >= MIN_MSG_LEN
WindowOk ==
    /\ s_last.now - s_last.env.msg.ts <= FRESHNESS_MAX_AGE
    /\ s_last.env.msg.ts - s_last.now <= FRESHNESS_FUTURE_TOL
TagOk == HmacOk(s_last.env)
NotReplayed == ~s_last.cached

\* C19: the SECOC receiver's checks come in the order length, freshness
\* window, HMAC, replay, overload drop, decode (the freshness parse in
\* between cannot fail on 8 bytes): a message failing a check is dropped
\* with the reason of the first check it fails, whatever the CPU reading and
\* the draw; the overload drop is taken only by a message that passed every
\* earlier check, and before the record is decoded
C19_GateOrder ==
    (s_last.outcome # "none" /\ ~s_last.env.aborted) =>
        /\ ~LengthOk => s_last.outcome = "too_short"
        /\ (LengthOk /\ ~WindowOk) => s_last.outcome \in {"stale", "future"}
        /\ (LengthOk /\ WindowOk /\ ~TagOk) => s_last.outcome = "hmac_mismatch"
        /\ (LengthOk /\ WindowOk /\ TagOk /\ ~NotReplayed) => s_last.outcome = "replay"
        /\ (LengthOk /\ WindowOk /\ TagOk /\ NotReplayed /\ GateDrops) =>
              s_last.outcome = "overload"
        /\ (LengthOk /\ WindowOk /\ TagOk /\ NotReplayed /\ ~GateDrops) =>
              s_last.outcome = IF UnpackOk(s_last.env.msg) THEN "done" ELSE "unpack_error"
        /\ s_last.outcome = "overload" =>
              LengthOk /\ WindowOk /\ TagOk /\ NotReplayed /\ GateDrops

\* a message with a wrong tag was dropped for the HMAC mismatch while the
\* CPU reading and the draw were such that the overload gate would drop
C19_Witness ==
    /\ s_pc = "accept"
    /\ s_last.outcome = "hmac_mismatch"
    /\ LengthOk /\ WindowOk
    /\ GateDrops

\* a step that takes the SECOC receiver's main out of its loop
SecocLeavesLoop ==
    (s_pc \in {"accept", "handling"}) /\ (s_pc' \notin {"accept", "handling"})

\* a step that takes the PQC receiver's main out of its loop
PqcLeavesLoop == (m_pc = "accept") /\ (m_pc' # "accept")

\* C17: whatever a connection does, it does not end the accept loop of
\* either receiver: the SECOC loop never reaches main's "except Exception"
\* clause, it leaves the loop only on an interrupt, and a connection being
\* handled always leads back to accept (or to the interrupt); the PQC main
\* is back at accept as soon as it has started the connection's thread,
\* leaves accept only on an interrupt, and no step of a handler or of a
\* worker moves it
C17_ReceiversStayAvailable ==
    /\ [](s_pc # "fatal")
    /\ [][SecocLeavesLoop => SecocInterrupt]_vars
    /\ (s_pc = "handling") ~> (s_pc \in {"accept", "stopped"})
    /\ [][Accept => m_pc' = "accept"]_vars
    /\ [][PqcLeavesLoop => Interrupt]_vars
    /\ []((m_pc = "accept" /\ \E a \in Conns : h_pc[a] = "unborn") => ENABLED Accept)

\* the SECOC receiver has served a valid message and then a connection that
\* failed, and is accepting again; or the PQC main is accepting further
\* connections after one whose message failed in a worker
C17_Witness ==
    \/ /\ s_pc = "accept"
       /\ REPLAY_SET # {}
       /\ s_last.outcome \in {"aborted", "hmac_mismatch", "too_short"}
    \/ /\ s_pc = "off"
       /\ m_pc = "accept"
       /\ \E a \in Conns : h_pc[a] = "unborn"
       /\ \E a \in Conns : p_result[a] \in {"sig_failed", "verify_error", "bad_freshness"}

-----------------------------------------------------------------------------
(* Properties of the replay caches *)

\* C26: after any sequence of record_replay calls REPLAY_SET holds exactly
\* the fingerprints queued in REPLAY_CACHE, the queue holds none twice, and
\* both have the same size
C26_ReplayStructuresAgree ==
    /\ REPLAY_SET = Range(REPLAY_CACHE)
    /\ \A i, j \in DOMAIN REPLAY_CACHE : REPLAY_CACHE[i] = REPLAY_CACHE[j] => i = j
    /\ Cardinality(REPLAY_SET) = Len(REPLAY_CACHE)

\* the cache is full, a fingerprint has been evicted from it, and the last
\* call was refused as a replay
C26_Witness ==
    /\ Len(r_recorded) > REPLAY_CACHE_SIZE
    /\ Len(REPLAY_CACHE) = REPLAY_CACHE_SIZE
    /\ r_last.calls > 0
    /\ ~r_last.ret

\* the returns of the SECOC handle_connection that reject before the
\* fingerprint is recorded
RejectedEarly ==
    {"aborted", "too_short", "stale", "future", "hmac_mismatch", "replay"}

\* the envelope passed the length, freshness and HMAC checks at some time
\* the receiver's clock has shown
PassedChecks(env) ==
    /\ ~env.aborted
    /\ env.msg.len >= MIN_MSG_LEN
    /\ HmacOk(env)
    /\ \E t \in SecocNow0..s_now : SecocFreshness(t, env.msg.ts) = "ok"

\* a step of the SECOC receiver other than the passing of time whose
\* connection was rejected early
RejectedStep == (s_now' = s_now) /\ (s_last'.outcome \in RejectedEarly)

\* C27: a connection of the SECOC receiver that ends in a short read, a
\* too-short message, a stale or future timestamp, an HMAC mismatch or a
\* detected replay leaves REPLAY_CACHE and REPLAY_SET as they were; every
\* fingerprint cached is that of an envelope that passed the length,
\* freshness and HMAC checks
C27_RejectedLeaveCache ==
    /\ [][RejectedStep => UNCHANGED <<REPLAY_CACHE, REPLAY_SET>>]_vars
    /\ [](\A h \in REPLAY_SET :
            \E env \in SecocEnvelopes : Fingerprint(env) = h /\ PassedChecks(env))

\* a message with a wrong tag has been rejected while the cache was full
C27_Witness ==
    /\ s_last.outcome = "hmac_mismatch"
    /\ Len(REPLAY_CACHE) = REPLAY_CACHE_SIZE
    /\ ~s_last.cached

\* the last message was dropped by the overload gate or failed the final
\* unpack
DroppedAfterRecord == s_last.outcome \in {"overload", "unpack_error"}

\* the envelope dropped after its fingerprint was recorded is delivered
\* again while the fingerprint is cached
C28_LaterDelivery ==
    /\ DroppedAfterRecord
    /\ s_last' # s_last
    /\ s_last'.env = s_last.env
    /\ Fingerprint(s_last.env) \in REPLAY_SET

\* the later delivery arrives inside the freshness window
C28_StillFresh == SecocFreshness(s_now, s_last.env.msg.ts) = "ok"

\* C28 as stated: when a message is dropped by the overload gate or fails
\* the final unpack its fingerprint is already cached, and a later delivery
\* of the identical envelope is dropped as a replay while the fingerprint
\* remains cached
C28_LaterAlwaysReplay ==
    /\ [](DroppedAfterRecord => Fingerprint(s_last.env) \in REPLAY_SET)
    /\ [][C28_LaterDelivery => s_last'.outcome = "replay"]_vars

\* C28 amended: when a message is dropped by the overload gate or fails the
\* final unpack its fingerprint is already cached; a later delivery of the
\* identical envelope while the fingerprint is cached is dropped as a replay
\* if it arrives inside the freshness window, and as stale once the window
\* has passed; in both cases the cache is left as it was
C28_RecordedBeforeDrop ==
    /\ [](DroppedAfterRecord => Fingerprint(s_last.env) \in REPLAY_SET)
    /\ [][C28_LaterDelivery =>
            /\ s_last'.outcome = IF C28_StillFresh THEN "replay" ELSE "stale"
            /\ UNCHANGED <<REPLAY_CACHE, REPLAY_SET>>]_vars

\* the over-long message, which is never decoded, has been dropped as a
\* replay: its fingerprint was recorded by a delivery that the overload gate
\* dropped or whose unpack failed
C28_Witness ==
    /\ s_last.outcome = "replay"
    /\ ~UnpackOk(s_last.env.msg)
    /\ s_last.cached

\* C29: the SECOC receiver never accepts an envelope whose tag is shorter
\* than TAG_LEN bytes
C29_NoShortTagAccepted ==
    s_last.outcome = "done" => Len(s_last.env.tag) >= TAG_LEN

\* a step in which worker w removes an entry from SEEN_HASHES
OwnPop(w) == (w_pc[w] = "pop") /\ (w_pc'[w] = "verify")

\* C30: when a run of handle_message has recorded its fingerprint and then
\* removes an entry because SEEN_HASHES exceeds MAX_HASHES, the entry
\* removed is not the fingerprint it just recorded
C30_EvictionKeepsNewest ==
    [][\A w \in Workers :
          OwnPop(w) => PqcFingerprint(p_traffic[w_item[w]].env) \in SEEN_HASHES']_vars

-----------------------------------------------------------------------------
(* Properties of the PQC worker pool *)

\* the workers inside handle_message
Running == {w \in Workers : w_pc[w] \in {"check", "add", "len", "pop", "verify"}}

\* the workers holding the message of connection a, and its places on the
\* queue
Holders(a) == {w \in Workers : w_item[w] = a}
QueuedAt(a) == {i \in DOMAIN MSG_QUEUE : MSG_QUEUE[i] = a}

\* the workers that took an item and have not yet marked it done
Unfinished == {w \in Workers : w_pc[w] \notin {"get", "exited"}}

\* C25: at most NUM_WORKERS runs of handle_message execute at a time; a
\* message put on the queue is on the queue once or with one worker until
\* its run has ended, and its run ends once; every item taken is marked
\* done once, so the count of unfinished tasks is the items queued plus the
\* items held; and a worker whose run ended, by a return or by an exception,
\* marks the item done and waits for the next one
C25_WorkerPool ==
    /\ [](Cardinality(Running) <= NUM_WORKERS)
    /\ [](\A a \in p_everQueued :
            IF p_result[a] = "none"
            THEN Cardinality(QueuedAt(a)) + Cardinality(Holders(a)) = 1
            ELSE /\ QueuedAt(a) = {}
                 /\ \A w \in Holders(a) : w_pc[w] = "task_done"
                 /\ Cardinality(Holders(a)) <= 1)
    /\ [](\A a \in DOMAIN p_result : p_result[a] # "none" => a \in p_everQueued)
    /\ [][\A a \in DOMAIN p_result :
            p_result[a] # "none" => p_result'[a] = p_result[a]]_vars
    /\ [](unfinished_tasks = Len(MSG_QUEUE) + Cardinality(Unfinished))
    /\ [](\A w \in Workers : w_pc[w] = "task_done" => ENABLED WorkerTaskDone(w))
    /\ [][\A w \in Workers :
            (w_pc[w] = "task_done" /\ w_pc'[w] # "task_done") =>
                (w_pc'[w] = "get" /\ unfinished_tasks' = unfinished_tasks - 1)]_vars

\* all NUM_WORKERS workers are inside handle_message while a further message
\* waits on the queue
C25_Witness ==
    /\ Cardinality(Running) = NUM_WORKERS
    /\ MSG_QUEUE # <<>>
    /\ \A w \in Workers : w_item[w] # NoneItem


(***************************************************************************)
(* Properties of the steady and long modes and of the stop flag            *)
(***************************************************************************)

SteadyRun == l_args.mode = "steady"
LongRun == l_args.mode = "long"
RunEnded == l_pc \in {"ran", "stopping", "returned"}

\* the tasks a step creates
Created == {i \in TaskIds : l_task[i].pc = "absent" /\ l_task'[i].pc # "absent"}

\* a step of a steady run that creates a batch
BatchStep == (SteadyRun /\ l_iter' # l_iter)

\* a step of a steady run that creates a task
CreatingStep == (SteadyRun /\ Created # {})

\* a steady run is over and stop() was not called during it
SteadyCompleted == SteadyRun /\ l_pc = "ran" /\ ~l_stop

\* C21: run_steady creates its attempts in batches of exactly `concurrency`
\* attempts with the next `concurrency` indices; when a batch is created
\* every attempt of the batches before it has recorded its result; and a run
\* during which stop() was not called ends after STEADY_ITERATIONS batches
\* with STEADY_ITERATIONS * concurrency results, one for each index from 0 up
C21_SteadyBatches ==
    /\ [][CreatingStep => BatchStep]_vars
    /\ [][BatchStep =>
            /\ l_iter' = l_iter + 1
            /\ Created = (l_iter * l_args.concurrency)
                           ..((l_iter + 1) * l_args.concurrency - 1)
            /\ Cardinality(Created) = l_args.concurrency
            /\ \A i \in 0..(l_iter * l_args.concurrency - 1) :
                  /\ l_task[i].pc = "done"
                  /\ Cardinality(ResultsOf(i)) = 1]_vars
    /\ [](SteadyCompleted =>
            /\ l_iter = STEADY_ITERATIONS
            /\ Len(results) = STEADY_ITERATIONS * l_args.concurrency
            /\ \A i \in 0..(STEADY_ITERATIONS * l_args.concurrency - 1) :
                  Cardinality(ResultsOf(i)) = 1
            /\ \A k \in DOMAIN results :
                  results[k].idx \in 0..(STEADY_ITERATIONS * l_args.concurrency - 1))

\* a steady run of MaxConcurrency attempts a batch has ended without a stop,
\* with the results of all its batches
C21_Witness ==
    /\ SteadyCompleted
    /\ l_args.concurrency = MaxConcurrency
    /\ Len(results) = STEADY_ITERATIONS * MaxConcurrency

\* the connections run_long failed to open so far
FailedOpen == {i \in 0..(l_long.next - 1) : \A p \in DOMAIN l_long.opened :
                                                 l_long.opened[p] # i}

\* the results of the opening phase, which carry no iteration
OpenResults(i) == {k \in DOMAIN results : /\ "iteration" \notin DOMAIN results[k]
                                          /\ results[k].idx = i}

\* the results of round r for the connection at position p
RoundResults(r, p) == {k \in DOMAIN results : /\ "iteration" \in DOMAIN results[k]
                                              /\ results[k].iteration = r
                                              /\ results[k].idx = p}
Positions == 0..(Len(l_long.opened) - 1)

\* C22: run_long has one failure result for each connection it could not
\* open and none for the others; for every round that has ended it has
\* exactly one result with that iteration for each opened connection, and
\* for the round in progress one for each send that has ended; the results
\* of a round all come before those of the next; the run ends, after a stop
\* request too, and when it has ended every opened connection is closed
C22_LongRounds ==
    /\ [](LongRun =>
            /\ \A i \in 0..(MaxConcurrency - 1) :
                  /\ Cardinality(OpenResults(i)) = IF i \in FailedOpen THEN 1 ELSE 0
                  /\ \A k \in OpenResults(i) : ~results[k].success
            /\ \A p \in Positions :
                  /\ \A r \in 0..(l_long.round - 1) : Cardinality(RoundResults(r, p)) = 1
                  /\ Cardinality(RoundResults(l_long.round, p)) =
                        IF l_pc = "p_gather" /\ l_task[p].pc = "p_done" THEN 1 ELSE 0
            /\ \A k \in DOMAIN results :
                  "iteration" \in DOMAIN results[k] =>
                      /\ results[k].iteration <= l_long.round
                      /\ results[k].idx \in Positions
                      /\ \A j \in 1..(k - 1) :
                            \/ "iteration" \notin DOMAIN results[j]
                            \/ results[j].iteration <= results[k].iteration
            /\ (RunEnded => l_long.closed = Positions))
    /\ LongRun => <>RunEnded
    /\ (LongRun /\ l_stop) ~> RunEnded

\* a long run has ended after MaxRounds rounds on one connection, another
\* connection having failed to open
C22_Witness ==
    /\ LongRun /\ l_pc = "ran"
    /\ Len(l_long.opened) = 1 /\ FailedOpen # {}
    /\ l_long.round = MaxRounds
    /\ l_long.closed = {0}
    /\ Len(results) = MaxRounds + 1

\* an attempt that has been created and has not ended
Active(i) == l_task[i].pc \in {"created", "waiting", "connecting", "draining", "reading",
                               "closing", "p_created", "p_draining", "p_reading"}
Ended(i) == l_task[i].pc \in {"done", "p_done"}

\* the stop flag is set and the run goes on
Stopped == (l_stop /\ ~RunEnded)

\* C23: once the stop flag is set during a run, no task is created, no batch
\* and no round is started; an attempt that is under way is not cancelled:
\* it stays as it is or goes on, and when it ends it has recorded one more
\* result; and the attempts under way all end
C23_StopStartsNothing ==
    /\ [][Stopped =>
            /\ \A i \in TaskIds :
                  l_task[i].pc \in {"absent", "done", "p_done"} => l_task'[i] = l_task[i]
            /\ l_iter' = l_iter
            /\ l_pc \notin {"gather", "p_gather"} => l_pc' \notin {"gather", "p_gather"}
            /\ l_pc = "p_sleep" => l_long'.round = l_long.round
            /\ \A i \in TaskIds :
                  Active(i) =>
                      \/ Active(i)' /\ Cardinality(ResultsOf(i))' = Cardinality(ResultsOf(i))
                      \/ Ended(i)' /\ Cardinality(ResultsOf(i))' = Cardinality(ResultsOf(i)) + 1
         ]_vars
    /\ l_stop ~> (\A i \in TaskIds : ~Active(i))

\* the stop flag was set while a batch or a round was gathered, and one of
\* its attempts has ended since or is still under way
C23_Witness ==
    /\ Stopped
    /\ l_pc \in {"gather", "p_gather"}
    /\ \E i \in TaskIds : Active(i)
    /\ \E i \in TaskIds : Ended(i)

(***************************************************************************)
(* Properties of recv_exact                                                *)
(***************************************************************************)

RECURSIVE Concat(_)
Concat(ss) == IF ss = <<>> THEN <<>> ELSE Head(ss) \o Concat(Tail(ss))

\* the length the f-th recv_exact call was made with
Wanted(f) == IF f % 2 = 1 THEN HDR_LEN ELSE from_bytes(x_rd.fields[f - 1])

\* the envelope was handed on to the checks that follow the reads
Parsed == x_rd.pc = "parsed"

\* C24: whatever the chunks, every value recv_exact returned has exactly the
\* length asked for, and the values returned and the bytes of the pending
\* call are the bytes of the stream in order; recv_exact raises only when the
\* stream ended short of the length asked for, a connection error when the
\* peer closed and, in SECOC, when it timed out; and the handler goes on past
\* its reads only with every field complete, so never with a truncated
\* envelope
C24_ExactReads ==
    x_rd.pc # "off" =>
        /\ \A f \in DOMAIN x_rd.fields : Len(x_rd.fields[f]) = Wanted(f)
        /\ Concat(x_rd.fields) \o x_rd.data = SubSeq(x_in.sent, 1, x_rd.pos)
        /\ Len(x_rd.data) <= x_rd.want
        /\ x_rd.pc = "recv" => Len(x_rd.data) < x_rd.want
        /\ x_rd.pc = "aborted" =>
              /\ Len(x_rd.data) < x_rd.want
              /\ x_rd.pos = Len(x_in.sent)
              /\ Len(x_rd.fields) < NumFields(x_in.kind)
              /\ (x_in.end = "close" \/ x_in.kind = "secoc") => x_rd.exc = "ConnectionError"
        /\ Parsed =>
              /\ Len(x_rd.fields) = NumFields(x_in.kind)
              /\ x_rd.exc = "none"
              /\ Len(x_in.sent) >= HDR_LEN * (NumFields(x_in.kind) \div 2)
                                     + Len(x_rd.fields[2]) + Len(x_rd.fields[4])

\* the peer closed in the middle of a field, after a field before it had
\* arrived in more than one chunk
C24_Witness ==
    /\ x_rd.pc = "aborted"
    /\ x_in.end = "close"
    /\ x_rd.split
    /\ Len(x_rd.fields) >= 2
    /\ x_rd.data # <<>>

(***************************************************************************)
(* Properties of the PQC replay cache under rejected messages              *)
(***************************************************************************)

\* the run of handle_message in worker w returns at the freshness parse or
\* at the 30 s window
FreshnessReturn(w) ==
    (/\ w_pc[w] = "check"
     /\ w_pc'[w] = "task_done"
     /\ p_result'[w_item[w]] \in {"bad_freshness", "not_fresh"})

\* the run of handle_message in worker w ends with a verification that
\* fails or raises
VerifyRejects(w) ==
    (/\ w_pc[w] = "verify"
     /\ w_pc'[w] = "get"
     /\ p_result'[w_item[w]] \in {"sig_failed", "verify_error"})

\* the part of C31 that holds: a return at the freshness parse or at the
\* 30 s window changes nothing in SEEN_HASHES, a run adds its fingerprint
\* before it verifies, and a verification that fails or raises removes
\* nothing
FreshnessReturnKeepsCache ==
    [][\A w \in Workers :
          /\ FreshnessReturn(w) => SEEN_HASHES' = SEEN_HASHES
          /\ VerifyRejects(w) => SEEN_HASHES' = SEEN_HASHES
          /\ (w_pc[w] = "add" /\ w_pc'[w] # "add") =>
                (/\ w_pc'[w] = "len"
                 /\ PqcFingerprint(p_traffic[w_item[w]].env) \in SEEN_HASHES')]_vars

\* C31: a message dropped by handle_message for an unparseable freshness
\* field or for a timestamp more than 30 s from now leaves SEEN_HASHES
\* unchanged, and the fingerprint of a fresh message whose verification
\* fails or raises is in SEEN_HASHES when the verification has ended
C31_RejectedAndCache ==
    [][\A w \in Workers :
          /\ FreshnessReturn(w) => SEEN_HASHES' = SEEN_HASHES
          /\ VerifyRejects(w) =>
                PqcFingerprint(p_traffic[w_item[w]].env) \in SEEN_HASHES']_vars
=============================================================================
